---------------------------- MODULE Spec2Model ----------------------------
(***************************************************************************)
(* Bayesian mapping of the compounds and reactions of two metabolic        *)
(* models (psamm/bayesian.py).                                             *)
(*                                                                         *)
(* The Python code computes with floats; the model computes the same       *)
(* expressions exactly, over rationals whose numerator and denominator are *)
(* arbitrary-precision naturals (TLC's integers are 32 bits wide).         *)
(***************************************************************************)
EXTENDS Integers, Sequences, FiniteSets, TLC

(***************************************************************************)
(* Arbitrary-precision naturals: little-endian digit sequences in base     *)
(* Base, without leading zeros; zero is the empty sequence.                *)
(***************************************************************************)
Base == 100 * 100

RECURSIVE BigOf(_)
BigOf(k) == IF k = 0 THEN <<>> ELSE <<k % Base>> \o BigOf(k \div Base)

RECURSIVE BNorm(_)
BNorm(a) ==
    IF a = <<>> THEN <<>>
    ELSE IF a[Len(a)] = 0 THEN BNorm(SubSeq(a, 1, Len(a) - 1))
    ELSE a

\* the value of a natural of at most two digits
SmallOf(a) ==
    IF a = <<>> THEN 0 ELSE IF Len(a) = 1 THEN a[1] ELSE a[1] + Base * a[2]

RECURSIVE BAddC(_, _, _)
BAddC(a, b, c) ==
    IF a = <<>> /\ b = <<>> THEN (IF c = 0 THEN <<>> ELSE <<c>>)
    ELSE LET x == IF a = <<>> THEN 0 ELSE Head(a)
             y == IF b = <<>> THEN 0 ELSE Head(b)
             s == x + y + c
             ta == IF a = <<>> THEN <<>> ELSE Tail(a)
             tb == IF b = <<>> THEN <<>> ELSE Tail(b)
         IN  <<s % Base>> \o BAddC(ta, tb, s \div Base)

\* single digits are added directly
BAdd(a, b) ==
    IF Len(a) <= 1 /\ Len(b) <= 1 THEN BigOf(SmallOf(a) + SmallOf(b))
    ELSE BAddC(a, b, 0)

\* a - b for a >= b
RECURSIVE BSubC(_, _, _)
BSubC(a, b, c) ==
    IF a = <<>> THEN <<>>
    ELSE LET y == IF b = <<>> THEN 0 ELSE Head(b)
             d == Head(a) - y - c
             tb == IF b = <<>> THEN <<>> ELSE Tail(b)
         IN  IF d < 0 THEN <<d + Base>> \o BSubC(Tail(a), tb, 1)
             ELSE <<d>> \o BSubC(Tail(a), tb, 0)

BSub(a, b) ==
    IF Len(a) <= 1 /\ Len(b) <= 1 THEN BigOf(SmallOf(a) - SmallOf(b))
    ELSE BNorm(BSubC(a, b, 0))

\* a * k for a digit-sized k (0 <= k < Base)
RECURSIVE BMulSmallC(_, _, _)
BMulSmallC(a, k, c) ==
    IF a = <<>> THEN (IF c = 0 THEN <<>> ELSE <<c>>)
    ELSE LET p == Head(a) * k + c
         IN  <<p % Base>> \o BMulSmallC(Tail(a), k, p \div Base)

BMulSmall(a, k) == IF k = 0 THEN <<>> ELSE BMulSmallC(a, k, 0)

RECURSIVE BMulLong(_, _)
BMulLong(a, b) ==
    IF a = <<>> \/ b = <<>> THEN <<>>
    ELSE LET rest == BMulLong(a, Tail(b))
         IN  BAdd(BMulSmall(a, Head(b)),
                  IF rest = <<>> THEN <<>> ELSE <<0>> \o rest)

\* single digits are multiplied directly
BMul(a, b) ==
    IF Len(a) <= 1 /\ Len(b) <= 1 THEN BigOf(SmallOf(a) * SmallOf(b))
    ELSE BMulLong(a, b)

\* -1, 0, 1 as a < b, a = b, a > b
RECURSIVE BCmpFrom(_, _, _)
BCmpFrom(a, b, i) ==
    IF i = 0 THEN 0
    ELSE IF a[i] < b[i] THEN -1
    ELSE IF a[i] > b[i] THEN 1
    ELSE BCmpFrom(a, b, i - 1)

BCmp(a, b) ==
    IF Len(a) < Len(b) THEN -1
    ELSE IF Len(a) > Len(b) THEN 1
    ELSE BCmpFrom(a, b, Len(a))

\* a mod k for a digit-sized k, from the most significant digit down
RECURSIVE BModFrom(_, _, _, _)
BModFrom(a, k, i, r) ==
    IF i = 0 THEN r ELSE BModFrom(a, k, i - 1, (r * Base + a[i]) % k)

BMod(a, k) == BModFrom(a, k, Len(a), 0)

\* the digits 1..i of a div k, r the remainder the higher digits leave
RECURSIVE BDivFrom(_, _, _, _)
BDivFrom(a, k, i, r) ==
    IF i = 0 THEN <<>>
    ELSE BDivFrom(a, k, i - 1, (r * Base + a[i]) % k) \o <<(r * Base + a[i]) \div k>>

BDiv(a, k) == BNorm(BDivFrom(a, k, Len(a), 0))

(***************************************************************************)
(* Signed rationals [neg, n, d] with d > 0.  Small values are in lowest    *)
(* terms, large values are freed of their small common prime factors;      *)
(* rationals are compared with REq / RLe, never with =.                    *)
(***************************************************************************)
RECURSIVE Gcd(_, _)
Gcd(a, b) == IF b = 0 THEN a ELSE Gcd(b, a % b)

Reduced(neg, n, d, g) == [neg |-> neg /\ n # 0, n |-> BigOf(n \div g), d |-> BigOf(d \div g)]

ReducedSmall(neg, n, d) == Reduced(neg, n, d, Gcd(n, d))

\* the prime factors of the constants, priors and pair counts in use
SmallPrimes == <<2, 3, 5, 7, 11, 13, 19>>

\* n / d freed of the common factors SmallPrimes[i], SmallPrimes[i + 1], ...
RECURSIVE Stripped(_, _, _, _)
Stripped(neg, n, d, i) ==
    IF Len(n) <= 2 /\ Len(d) <= 2
    THEN ReducedSmall(neg, SmallOf(n), SmallOf(d))
    ELSE IF i > Len(SmallPrimes)
    THEN [neg |-> neg /\ n # <<>>, n |-> n, d |-> d]
    ELSE IF BMod(n, SmallPrimes[i]) = 0 /\ BMod(d, SmallPrimes[i]) = 0
    THEN Stripped(neg, BDiv(n, SmallPrimes[i]), BDiv(d, SmallPrimes[i]), i)
    ELSE Stripped(neg, n, d, i + 1)

\* n / d with the sign neg
Rat(neg, n, d) ==
    IF Len(n) <= 2 /\ Len(d) <= 2
    THEN ReducedSmall(neg, SmallOf(n), SmallOf(d))
    ELSE Stripped(neg, n, d, 1)

\* the rational a / b of two small naturals, b > 0
Q(a, b) == Rat(FALSE, BigOf(a), BigOf(b))

RZero == Q(0, 1)
ROne == Q(1, 1)

RNeg(x) == Rat(~x.neg, x.n, x.d)

\* a / d + b / d with the signs xneg and yneg
AddOver(xneg, yneg, a, b, d) ==
    IF xneg = yneg THEN Rat(xneg, BAdd(a, b), d)
    ELSE IF BCmp(a, b) >= 0 THEN Rat(xneg, BSub(a, b), d)
    ELSE Rat(yneg, BSub(b, a), d)

RAdd(x, y) == AddOver(x.neg, y.neg, BMul(x.n, y.d), BMul(y.n, x.d), BMul(x.d, y.d))

RSub(x, y) == RAdd(x, RNeg(y))

RMul(x, y) == Rat(x.neg # y.neg, BMul(x.n, y.n), BMul(x.d, y.d))

RIsZero(x) == x.n = <<>>

\* x / y for y # 0
RDiv(x, y) == Rat(x.neg # y.neg, BMul(x.n, y.d), BMul(x.d, y.n))

\* sign of x - y
CmpOver(xneg, yneg, a, b) ==
    IF xneg /\ ~yneg THEN -1
    ELSE IF ~xneg /\ yneg THEN 1
    ELSE IF xneg THEN -BCmp(a, b)
    ELSE BCmp(a, b)

RCmp(x, y) == CmpOver(x.neg, y.neg, BMul(x.n, y.d), BMul(y.n, x.d))

REq(x, y) == RCmp(x, y) = 0
RLe(x, y) == RCmp(x, y) <= 0
RLt(x, y) == RCmp(x, y) < 0

(***************************************************************************)
(* Bounds of the model.                                                    *)
(***************************************************************************)
\* compounds named in one equation
MaxCpds == 2

\* compound names used in equations
Names == {"A", "B"}

\* posterior scores a compound table entry can hold
Scores == {Q(1, 4), Q(3, 4)}

\* iteration orders of a Python set of names: every permutation
Orders == {o \in [1..Cardinality(Names) -> Names] : \A c \in Names : \E i \in DOMAIN o : o[i] = c}

Pos(ord, c) == CHOOSE i \in DOMAIN ord : ord[i] = c

(***************************************************************************)
(* Equation Matcher: reaction equation channel.                            *)
(* An equation is a set of <<compound name, stoichiometric value>>; a      *)
(* compound table (cpd_pred) is a function from the pairs of its index to  *)
(* posterior scores.                                                       *)
(***************************************************************************)
\* r.equation is None
NoEquation == {<<"None", 0>>}

\* get_cpd_set: names of the compounds of one side; left is value < 0
get_cpd_set(equation, left) ==
    LET coef == IF left THEN 1 ELSE -1
    IN  {e[1] : e \in {x \in equation : coef * x[2] < 0}}

\* the side sets taken for the equation's own: a removal from a side set
\* deletes the compound from the equation
EquationLeft_shared_sets(equation, left_set, right_set) ==
    {e \in equation : e[1] \in left_set \cup right_set}

\* the equation after its side sets were matched: get_cpd_set builds each
\* side set with set(...), a new object, so the removals of the matcher do
\* not reach equation.compounds
EquationLeft(equation, left_set, right_set) == equation

\* the candidates left in the order of product(cpd_set1, cpd_set2): the sort
\* by score forgotten
PairBefore_unsorted(p, q, cpd_pred, ord1, ord2) ==
    \/ Pos(ord1, p[1]) < Pos(ord1, q[1])
    \/ p[1] = q[1] /\ Pos(ord2, p[2]) <= Pos(ord2, q[2])

\* the pair p is processed before q: descending score, ties in the order
\* of product(cpd_set1, cpd_set2)
ProductBefore(p, q, ord1, ord2) ==
    \/ Pos(ord1, p[1]) < Pos(ord1, q[1])
    \/ p[1] = q[1] /\ Pos(ord2, p[2]) <= Pos(ord2, q[2])

BeforeByScore(c, p, q, ord1, ord2) ==
    c > 0 \/ (c = 0 /\ ProductBefore(p, q, ord1, ord2))

PairBefore(p, q, cpd_pred, ord1, ord2) ==
    BeforeByScore(RCmp(cpd_pred[p], cpd_pred[q]), p, q, ord1, ord2)

\* the first of a set of pairs in processing order
FirstPair(pairs, cpd_pred, ord1, ord2) ==
    CHOOSE p \in pairs : \A q \in pairs : PairBefore(p, q, cpd_pred, ord1, ord2)

WithFirst(first, pairs) == [first |-> first, rest |-> pairs \ {first}]

\* cpd_pred.loc[pair_list].sort_values(ascending=False), as a sequence
RECURSIVE SortedPairs(_, _, _, _)
RECURSIVE SortedFrom(_, _, _, _)
SortedPairs(pairs, cpd_pred, ord1, ord2) ==
    IF pairs = {} THEN <<>>
    ELSE SortedFrom(WithFirst(FirstPair(pairs, cpd_pred, ord1, ord2), pairs),
                    cpd_pred, ord1, ord2)

SortedFrom(split, cpd_pred, ord1, ord2) ==
    <<split.first>> \o SortedPairs(split.rest, cpd_pred, ord1, ord2)

\* the term (1 - score) * 0.1 forgotten
MatchFactor_no_complement(score) == RMul(score, Q(9, 10))

\* log(score * 0.9 + (1 - score) * 0.1) before the logarithm
MatchFactor(score) ==
    RAdd(RMul(score, Q(9, 10)), RMul(RSub(ROne, score), Q(1, 10)))

\* log(score * 0.1 + (1 - score) * 0.9) before the logarithm
NoMatchFactor(score) ==
    RAdd(RMul(score, Q(1, 10)), RMul(RSub(ROne, score), Q(9, 10)))

RECURSIVE RPow(_, _)
RPow(x, k) == IF k = 0 THEN ROne ELSE RMul(x, RPow(x, k - 1))

\* one committed pair with cpd_set2.remove(c2) forgotten
Commit_keep_second(acc, pair, score) ==
    [p_match |-> RMul(acc.p_match, MatchFactor(score)),
     p_no_match |-> RMul(acc.p_no_match, NoMatchFactor(score)),
     set1 |-> acc.set1 \ {pair[1]},
     set2 |-> acc.set2,
     commits |-> Append(acc.commits, pair)]

\* one committed pair: the factors multiplied in, the compounds removed
Commit(acc, pair, score) ==
    [p_match |-> RMul(acc.p_match, MatchFactor(score)),
     p_no_match |-> RMul(acc.p_no_match, NoMatchFactor(score)),
     set1 |-> acc.set1 \ {pair[1]},
     set2 |-> acc.set2 \ {pair[2]},
     commits |-> Append(acc.commits, pair)]

\* the loop over the sorted candidates; acc holds the running products, the
\* two sets as removals have left them, and the committed pairs
RECURSIVE GreedyLoop(_, _, _)
GreedyLoop(sorted, cpd_pred, acc) ==
    IF sorted = <<>> THEN acc
    ELSE IF Head(sorted)[1] \in acc.set1 /\ Head(sorted)[2] \in acc.set2
    THEN GreedyLoop(Tail(sorted), cpd_pred,
                    Commit(acc, Head(sorted), cpd_pred[Head(sorted)]))
    ELSE GreedyLoop(Tail(sorted), cpd_pred, acc)

\* the two loops over the compounds left unmatched, and the exp
Unmatched(g, u) ==
    [p_match |-> RMul(g.p_match, RPow(Q(1, 10), u)),
     p_no_match |-> RMul(g.p_no_match, RPow(Q(9, 10), u)),
     set1 |-> g.set1, set2 |-> g.set2, commits |-> g.commits]

\* the loop over the compounds left in cpd_set2 dropped
AfterLoop_first_set_only(g) == Unmatched(g, Cardinality(g.set1))

\* for c in cpd_set1 ... for c in cpd_set2 ...: one constant per compound left
AfterLoop(g) == Unmatched(g, Cardinality(g.set1) + Cardinality(g.set2))

PairList(cpd_set1, cpd_set2, cpd_pred) ==
    {p \in cpd_set1 \X cpd_set2 : p \in DOMAIN cpd_pred}

\* reaction_equation_mapping_approx_max_likelihood.  The sums of logarithms
\* and the final exp are the product of the factors.  set1 and set2 of the
\* result are the argument sets as the call leaves them (it removes the
\* committed compounds from the caller's sets).
reaction_equation_mapping_approx_max_likelihood(cpd_set1, cpd_set2, cpd_pred, ord1, ord2) ==
    AfterLoop(GreedyLoop(
        SortedPairs(PairList(cpd_set1, cpd_set2, cpd_pred), cpd_pred, ord1, ord2),
        cpd_pred,
        [p_match |-> ROne, p_no_match |-> ROne,
         set1 |-> cpd_set1, set2 |-> cpd_set2, commits |-> <<>>]))

\* the two sides multiplied
Merged(p_set_left, p_set_right) ==
    [p_match |-> RMul(p_set_left.p_match, p_set_right.p_match),
     p_no_match |-> RMul(p_set_left.p_no_match, p_set_right.p_no_match),
     s1_left |-> p_set_left.set1, s2_left |-> p_set_left.set2,
     s1_right |-> p_set_right.set1, s2_right |-> p_set_right.set2,
     left |-> p_set_left, right |-> p_set_right]

\* the two sides multiplied, with an index slip: the no-match product takes
\* the right side's p_match
Merged_index_slip(p_set_left, p_set_right) ==
    [p_match |-> RMul(p_set_left.p_match, p_set_right.p_match),
     p_no_match |-> RMul(p_set_left.p_no_match, p_set_right.p_match),
     s1_left |-> p_set_left.set1, s2_left |-> p_set_left.set2,
     s1_right |-> p_set_right.set1, s2_right |-> p_set_right.set2,
     left |-> p_set_left, right |-> p_set_right]

merge_partial_p_set_index_slip(s1_left, s2_left, cpd_pred, s1_right, s2_right, ord1, ord2) ==
    Merged_index_slip(
        reaction_equation_mapping_approx_max_likelihood(s1_left, s2_left, cpd_pred, ord1, ord2),
        reaction_equation_mapping_approx_max_likelihood(s1_right, s2_right, cpd_pred, ord1, ord2))

\* merge_partial_p_set: the left and the right side matched separately and
\* multiplied; the four sets of the result are the four argument sets as the
\* two calls leave them
merge_partial_p_set(s1_left, s2_left, cpd_pred, s1_right, s2_right, ord1, ord2) ==
    Merged(
        reaction_equation_mapping_approx_max_likelihood(s1_left, s2_left, cpd_pred, ord1, ord2),
        reaction_equation_mapping_approx_max_likelihood(s1_right, s2_right, cpd_pred, ord1, ord2))

\* the comparison with > in place of >=
ForwardIsBest_strict(fwd, rev) ==
    RCmp(RDiv(fwd.p_match, fwd.p_no_match), RDiv(rev.p_match, rev.p_no_match)) > 0

\* the comparison of get_best_p_value_set:
\* p_forward_match / p_forward_no_match >= p_reverse_match / p_reverse_no_match
ForwardIsBest(fwd, rev) ==
    RCmp(RDiv(fwd.p_match, fwd.p_no_match), RDiv(rev.p_match, rev.p_no_match)) >= 0

\* maintain the direction with better p values
Selected(fwd, rev) ==
    IF ForwardIsBest(fwd, rev)
    THEN [p_match |-> fwd.p_match, p_no_match |-> fwd.p_no_match]
    ELSE [p_match |-> rev.p_match, p_no_match |-> rev.p_no_match]

\* the reverse hypothesis, scored on the sets the forward hypothesis has left
ReverseAfter(fwd, cpd_pred, ord1, ord2) ==
    merge_partial_p_set(fwd.s1_left, fwd.s2_right, cpd_pred,
                        fwd.s1_right, fwd.s2_left, ord1, ord2)

SelectedAfter(fwd, cpd_pred, ord1, ord2) ==
    Selected(fwd, ReverseAfter(fwd, cpd_pred, ord1, ord2))

\* get_best_p_value_set as one expression
get_best_p_value_set(eq1, eq2, cpd_pred, ord1, ord2) ==
    SelectedAfter(
        merge_partial_p_set(
            get_cpd_set(eq1, TRUE), get_cpd_set(eq2, TRUE), cpd_pred,
            get_cpd_set(eq1, FALSE), get_cpd_set(eq2, FALSE), ord1, ord2),
        cpd_pred, ord1, ord2)

\* r1.equation is None: the test on r2.equation dropped
EquationUndefined_first_only(eq1, eq2) == eq1 = NoEquation

\* r1.equation is None or r2.equation is None
EquationUndefined(eq1, eq2) == eq1 = NoEquation \/ eq2 = NoEquation

\* reaction_equation_compound_mapping_likelihood
reaction_equation_compound_mapping_likelihood(eq1, eq2, cpd_pred, ord1, ord2) ==
    IF EquationUndefined(eq1, eq2)
    THEN [p_match |-> ROne, p_no_match |-> ROne]
    ELSE get_best_p_value_set(eq1, eq2, cpd_pred, ord1, ord2)

(***************************************************************************)
(* Entities.  An optional attribute is <<>> when it is None and <<v>> when *)
(* it is v.  A formula is its heavy-atom part and its hydrogen count.      *)
(***************************************************************************)
\* entities of one collection
MaxEntities == 2

\* workers of the pool
MaxProc == 3

Compound(id, name, charge, formula, kegg) ==
    [id |-> id, name |-> name, charge |-> charge, formula |-> formula, kegg |-> kegg]

Reaction(id, name, equation, genes) ==
    [id |-> id, name |-> name, equation |-> equation, genes |-> genes]

Atoms(core, h) == [core |-> core, h |-> h]

\* model1.compounds and model2.compounds are drawn from these, in this order
CompoundsA ==
    << Compound("atp", <<"ATP">>, <<-4>>, <<Atoms("C10N5O13P3", 12)>>, <<"C00002">>),
       Compound("adp", <<>>, <<>>, <<>>, <<>>),
       Compound("glc", <<"D-Glucose">>, <<0>>, <<Atoms("C6O6", 12)>>, <<"C00031">>) >>

CompoundsB ==
    << Compound("ATP", <<"atp">>, <<-3>>, <<Atoms("C10N5O13P3", 13)>>, <<"C00002">>),
       Compound("glc", <<"glucose">>, <<0>>, <<Atoms("C6O6", 12)>>, <<>>),
       Compound("h2o", <<>>, <<0>>, <<Atoms("O", 2)>>, <<"C00001">>) >>

\* a model of one compound that has an id and a charge and nothing else
Scenario == <<Compound("atp", <<>>, <<-4>>, <<>>, <<>>)>>

\* compounds of the large model
CrowdSize == 24

\* a large model: every compound but the last has the same name, charge,
\* formula and kegg id under an id of its own
Crowd ==
    [k \in 1..CrowdSize |->
        IF k < CrowdSize
        THEN Compound("c" \o ToString(k), <<"glucose">>, <<0>>,
                      <<Atoms("C6O6", 12)>>, <<"C00031">>)
        ELSE Compound("c" \o ToString(k), <<"proton">>, <<1>>,
                      <<Atoms("", 1)>>, <<"C00080">>)]

\* model1.reactions and model2.reactions are drawn from these, in this order
ReactionsA ==
    << Reaction("R1", <<"hexokinase">>, {<<"A", -1>>, <<"B", 1>>}, <<{"g1", "g2"}>>),
       Reaction("R2", <<>>, NoEquation, <<>>),
       Reaction("R3", <<"transport">>, {<<"B", -1>>, <<"A", 1>>}, <<{"g1"}>>) >>

ReactionsB ==
    << Reaction("r1", <<"Hexokinase">>, {<<"B", -1>>, <<"A", 1>>}, <<{"g1"}>>),
       Reaction("R9", <<"other">>, {<<"A", -1>>, <<"B", 1>>}, <<>>),
       Reaction("R3", <<>>, NoEquation, <<{"g3"}>>) >>

\* the models of a compound mapping followed by a reaction mapping: the
\* equations name the compounds by their ids
ChainCompounds1 == <<CompoundsA[1], CompoundsA[3]>>

ChainCompounds2 == <<CompoundsB[1], CompoundsB[2]>>

ChainReactions1 ==
    << Reaction("R1", <<"hexokinase">>, {<<"atp", -1>>, <<"glc", 1>>}, <<{"g1", "g2"}>>),
       Reaction("R2", <<>>, NoEquation, <<>>) >>

ChainReactions2 ==
    << Reaction("r1", <<"Hexokinase">>, {<<"glc", -1>>, <<"ATP", 1>>}, <<{"g1"}>>),
       Reaction("R9", <<"other">>, {<<"ATP", -1>>, <<"glc", 1>>}, <<>>) >>

\* the compound posterior table handed to map_model_reactions
CpdPred ==
    [p \in Names \X Names |-> IF p[1] = p[2] THEN Q(3, 4) ELSE Q(1, 4)]

\* the iteration order of the sets of compound names
NameOrder == <<"A", "B", "atp", "adp", "glc", "ATP", "h2o">>

MinOf(S) == CHOOSE i \in S : \A j \in S : i <= j

\* the entries of a catalog at the positions S, in the catalog's order
RECURSIVE Pick(_, _)
Pick(catalog, S) ==
    IF S = {} THEN <<>>
    ELSE <<catalog[MinOf(S)]>> \o Pick(catalog, S \ {MinOf(S)})

Collections(catalog) ==
    {Pick(catalog, S) : S \in {T \in SUBSET DOMAIN catalog : Cardinality(T) <= MaxEntities}}

(***************************************************************************)
(* psamm.bayesian_util: the three comparators.                             *)
(***************************************************************************)
\* str.lower() on the identifiers in use
Lower(s) ==
    CASE s = "ATP" -> "atp"
      [] s = "R1" -> "r1"
      [] s = "R2" -> "r2"
      [] s = "R3" -> "r3"
      [] s = "R9" -> "r9"
      [] OTHER -> s

\* lower case, punctuation and white space removed, on the names in use
NameNorm(s) ==
    CASE s = "ATP" -> "atp"
      [] s = "D-Glucose" -> "dglucose"
      [] s = "Hexokinase" -> "hexokinase"
      [] OTHER -> s

id_equals(id1, id2) == Lower(id1) = Lower(id2)

name_equals(name1, name2) ==
    /\ name1 # <<>>
    /\ name2 # <<>>
    /\ NameNorm(name1[1]) = NameNorm(name2[1])

ChargeOrZero(charge) == IF charge = <<>> THEN 0 ELSE charge[1]

\* equal heavy atoms, and hydrogen counts that differ by the charge difference
formula_equals(f1, f2, charge1, charge2) ==
    /\ f1 # <<>>
    /\ f2 # <<>>
    /\ f1[1].core = f2[1].core
    /\ f1[1].h - ChargeOrZero(charge1) = f2[1].h - ChargeOrZero(charge2)

(***************************************************************************)
(* The likelihood functions.  Each returns (p_match, p_no_match) as the    *)
(* record [p1, p2].                                                        *)
(***************************************************************************)
P(p_match, p_no_match) == [p1 |-> p_match, p2 |-> p_no_match]

\* max(0, x): the floor forgotten
RMax0_no_floor(x) == x

\* Python's max(0, x)
RMax0(x) == IF x.neg THEN RZero ELSE x

\* the no-match formula divided by the prior in place of 1.0 - prior
NoMatch_prior_divisor(p_marg, p_match, prior) ==
    RMax0(RDiv(RSub(p_marg, RMul(p_match, prior)), prior))

\* max(0, (p_marg - p_match * prior) / (1.0 - prior))
NoMatch(p_marg, p_match, prior) ==
    RMax0(RDiv(RSub(p_marg, RMul(p_match, prior)), RSub(ROne, prior)))

compound_id_likelihood(c1, c2, compound_prior, compound_id_marg) ==
    IF id_equals(c1.id, c2.id)
    THEN P(Q(65, 100), NoMatch(compound_id_marg, Q(65, 100), compound_prior))
    ELSE P(Q(35, 100), NoMatch(RSub(ROne, compound_id_marg), Q(35, 100), compound_prior))

compound_name_likelihood(c1, c2, compound_prior, compound_name_marg) ==
    IF name_equals(c1.name, c2.name)
    THEN P(Q(60, 100), NoMatch(compound_name_marg, Q(60, 100), compound_prior))
    ELSE P(Q(40, 100), NoMatch(RSub(ROne, compound_name_marg), Q(40, 100), compound_prior))

compound_charge_likelihood(c1, c2, compound_prior, compound_charge_equal_marg, compound_charge_not_equal_marg) ==
    IF c1.charge = <<>> \/ c2.charge = <<>> THEN P(ROne, ROne)
    ELSE IF c1.charge = c2.charge
    THEN P(Q(9, 10), NoMatch(compound_charge_equal_marg, Q(9, 10), compound_prior))
    ELSE P(Q(1, 10), NoMatch(compound_charge_not_equal_marg, Q(1, 10), compound_prior))

compound_formula_likelihood(c1, c2, compound_prior, compound_formula_equal_marg, compound_formula_not_equal_marg) ==
    IF c1.formula = <<>> \/ c2.formula = <<>> THEN P(ROne, ROne)
    ELSE IF formula_equals(c1.formula, c2.formula, c1.charge, c2.charge)
    THEN P(Q(9, 10), NoMatch(compound_formula_equal_marg, Q(9, 10), compound_prior))
    ELSE P(Q(1, 10), NoMatch(compound_formula_not_equal_marg, Q(1, 10), compound_prior))

compound_kegg_likelihood(c1, c2, compound_prior, compound_kegg_equal_marg, compound_kegg_not_equal_marg) ==
    IF c1.kegg = <<>> \/ c2.kegg = <<>> THEN P(ROne, ROne)
    ELSE IF c1.kegg = c2.kegg
    THEN P(Q(65, 100), NoMatch(compound_kegg_equal_marg, Q(65, 100), compound_prior))
    ELSE P(Q(35, 100), NoMatch(compound_kegg_not_equal_marg, Q(35, 100), compound_prior))

reaction_id_likelihood(r1, r2, reaction_prior, reaction_id_equal_marg, reaction_id_not_equal_marg) ==
    IF id_equals(r1.id, r2.id)
    THEN P(Q(52, 100), NoMatch(reaction_id_equal_marg, Q(52, 100), reaction_prior))
    ELSE P(Q(48, 100), NoMatch(reaction_id_not_equal_marg, Q(48, 100), reaction_prior))

reaction_name_likelihood(r1, r2, reaction_prior, reaction_name_marg) ==
    IF name_equals(r1.name, r2.name)
    THEN P(Q(59, 100), NoMatch(reaction_name_marg, Q(59, 100), reaction_prior))
    ELSE P(Q(41, 100), NoMatch(RSub(ROne, reaction_name_marg), Q(41, 100), reaction_prior))

\* p_present ** present * p_differ ** differ
GenesProduct(p_present, p_differ, present, differ) ==
    RMul(RPow(p_present, present), RPow(p_differ, differ))

GenesOver(present, differ) ==
    P(GenesProduct(Q(99, 100), Q(1, 100), present, differ),
      GenesProduct(Q(10, 100), Q(90, 100), present, differ))

reaction_genes_likelihood(r1, r2) ==
    IF r1.genes = <<>> \/ r2.genes = <<>> THEN P(ROne, ROne)
    ELSE GenesOver(Cardinality(r1.genes[1] \cap r2.genes[1]),
                   Cardinality((r1.genes[1] \cup r2.genes[1])
                               \ (r1.genes[1] \cap r2.genes[1])))

\* a disabled channel counted as certain evidence of a match
fake_likelihood_certain(e1, e2) == P(ROne, RZero)

\* fake_likelihood: return 1, 1
fake_likelihood(e1, e2) == P(ROne, ROne)

AsP(best) == P(best.p_match, best.p_no_match)

reaction_equation_likelihood(r1, r2, cpd_pred) ==
    AsP(reaction_equation_compound_mapping_likelihood(
            r1.equation, r2.equation, cpd_pred, NameOrder, NameOrder))

(***************************************************************************)
(* The passes of map_model_compounds and map_model_reactions.  A pass is   *)
(* one pool.map: a marginal pass maps parallel_equel over the pairs, a     *)
(* likelihood pass is pairwise_likelihood.                                 *)
(***************************************************************************)
Pass(channel, marg) == [channel |-> channel, marg |-> marg]

CompoundPasses ==
    << Pass("id", TRUE), Pass("id", FALSE), Pass("name", TRUE), Pass("name", FALSE),
       Pass("charge", FALSE), Pass("formula", TRUE), Pass("formula", FALSE),
       Pass("kegg", FALSE) >>

ReactionPasses ==
    << Pass("id", TRUE), Pass("id", FALSE), Pass("name", TRUE), Pass("name", FALSE),
       Pass("equation", FALSE), Pass("genes", FALSE) >>

\* the passes with the first likelihood pass ahead of its marginal pass
Passes_likelihood_first(kind) ==
    [i \in 1..(IF kind = "compound" THEN Len(CompoundPasses) ELSE Len(ReactionPasses)) |->
        IF i = 1 THEN Pass("id", FALSE)
        ELSE IF i = 2 THEN Pass("id", TRUE)
        ELSE IF kind = "compound" THEN CompoundPasses[i] ELSE ReactionPasses[i]]

Passes(kind) == IF kind = "compound" THEN CompoundPasses ELSE ReactionPasses

\* product(itervalues(model1), itervalues(model2)) with the cycles confused
Tasks_zip(model1, model2) ==
    [k \in 1..(Len(model1) * Len(model2)) |->
        <<model1[((k - 1) % Len(model1)) + 1], model2[((k - 1) % Len(model2)) + 1]>>]

\* product(itervalues(model1), itervalues(model2)) as a list
Tasks(model1, model2) ==
    [k \in 1..(Len(model1) * Len(model2)) |->
        <<model1[((k - 1) \div Len(model2)) + 1], model2[((k - 1) % Len(model2)) + 1]>>]

\* the function a marginal pass hands to parallel_equel, applied
parallel_equel(channel, task) ==
    CASE channel = "id" -> id_equals(task[1].id, task[2].id)
      [] channel = "name" -> name_equals(task[1].name, task[2].name)
      [] OTHER -> formula_equals(task[1].formula, task[2].formula,
                                 task[1].charge, task[2].charge)

Params(prior, a, b) == [prior |-> prior, a |-> a, b |-> b, cpd_pred |-> <<>>]

\* the params tuple of the equation pass with the table left out
EquationParams_no_table(cpd_pred) ==
    [prior |-> RZero, a |-> RZero, b |-> RZero, cpd_pred |-> <<>>]

\* (cpd_pred, ): the params tuple of the equation pass
EquationParams(cpd_pred) ==
    [prior |-> RZero, a |-> RZero, b |-> RZero, cpd_pred |-> cpd_pred]

\* sum(... for c1, c2 in product(...)) / pairs for the indices that count
Fraction(counted, tasks) == Q(Cardinality(counted), Len(tasks))

charge_equal_marg(tasks) ==
    Fraction({k \in DOMAIN tasks :
                /\ tasks[k][1].charge # <<>>
                /\ tasks[k][2].charge # <<>>
                /\ tasks[k][1].charge = tasks[k][2].charge}, tasks)

charge_not_equal_marg(tasks) ==
    Fraction({k \in DOMAIN tasks :
                /\ tasks[k][1].charge # <<>>
                /\ tasks[k][2].charge # <<>>
                /\ tasks[k][1].charge # tasks[k][2].charge}, tasks)

formula_undefined(tasks) ==
    Fraction({k \in DOMAIN tasks :
                tasks[k][1].formula = <<>> \/ tasks[k][2].formula = <<>>}, tasks)

formula_not_equal_marg(compound_formula_equal_marg, tasks) ==
    RSub(RSub(ROne, compound_formula_equal_marg), formula_undefined(tasks))

kegg_equal_marg(tasks) ==
    Fraction({k \in DOMAIN tasks :
                /\ tasks[k][1].kegg # <<>>
                /\ tasks[k][2].kegg # <<>>
                /\ tasks[k][1].kegg = tasks[k][2].kegg}, tasks)

kegg_not_equal_marg(tasks) ==
    Fraction({k \in DOMAIN tasks :
                /\ tasks[k][1].kegg # <<>>
                /\ tasks[k][2].kegg # <<>>
                /\ tasks[k][1].kegg # tasks[k][2].kegg}, tasks)

\* the params tuple of a likelihood pass: the prior and up to two marginals
CompoundParams(channel, optional, prior, marg, tasks) ==
    CASE channel = "id" -> Params(prior, marg.id, RZero)
      [] channel = "name" -> Params(prior, marg.name, RZero)
      [] channel = "charge" ->
            Params(prior, charge_equal_marg(tasks), charge_not_equal_marg(tasks))
      [] channel = "formula" ->
            Params(prior, marg.formula, formula_not_equal_marg(marg.formula, tasks))
      [] OTHER ->
            IF optional
            THEN Params(prior, kegg_equal_marg(tasks), kegg_not_equal_marg(tasks))
            ELSE Params(prior, RZero, RZero)

ReactionParams(channel, prior, marg, cpd_pred) ==
    CASE channel = "id" -> Params(prior, marg.id, RSub(ROne, marg.id))
      [] channel = "name" -> Params(prior, marg.name, RZero)
      [] channel = "equation" -> EquationParams(cpd_pred)
      [] OTHER -> Params(prior, RZero, RZero)

PassParams(kind, channel, optional, prior, marg, tasks, cpd_pred) ==
    IF kind = "compound"
    THEN CompoundParams(channel, optional, prior, marg, tasks)
    ELSE ReactionParams(channel, prior, marg, cpd_pred)

\* likelihood(e1, e2, *params) for the likelihood function of the pass
CompoundLikelihood(channel, optional, e1, e2, params) ==
    CASE channel = "id" -> compound_id_likelihood(e1, e2, params.prior, params.a)
      [] channel = "name" -> compound_name_likelihood(e1, e2, params.prior, params.a)
      [] channel = "charge" ->
            compound_charge_likelihood(e1, e2, params.prior, params.a, params.b)
      [] channel = "formula" ->
            compound_formula_likelihood(e1, e2, params.prior, params.a, params.b)
      [] OTHER ->
            IF optional
            THEN compound_kegg_likelihood(e1, e2, params.prior, params.a, params.b)
            ELSE fake_likelihood(e1, e2)

ReactionLikelihood(channel, optional, e1, e2, params) ==
    CASE channel = "id" -> reaction_id_likelihood(e1, e2, params.prior, params.a, params.b)
      [] channel = "name" -> reaction_name_likelihood(e1, e2, params.prior, params.a)
      [] channel = "equation" -> reaction_equation_likelihood(e1, e2, params.cpd_pred)
      [] OTHER ->
            IF optional THEN reaction_genes_likelihood(e1, e2)
            ELSE fake_likelihood(e1, e2)

Likelihood(kind, channel, optional, e1, e2, params) ==
    IF kind = "compound"
    THEN CompoundLikelihood(channel, optional, e1, e2, params)
    ELSE ReactionLikelihood(channel, optional, e1, e2, params)

Row(e1, e2, p) == [e1 |-> e1, e2 |-> e2, p1 |-> p.p1, p2 |-> p.p2]

\* generate_likelihood: e1.id, e2.id, p1, p2
generate_likelihood(kind, channel, optional, task, params) ==
    Row(task[1].id, task[2].id,
        Likelihood(kind, channel, optional, task[1], task[2], params))

\* what a worker computes for one task of the pass
WorkItem(kind, pass, optional, task, params) ==
    IF pass.marg THEN parallel_equel(pass.channel, task)
    ELSE generate_likelihood(kind, pass.channel, optional, task, params)

(***************************************************************************)
(* multiprocessing.Pool.map(func, tasks, chunksize): the tasks are cut     *)
(* into contiguous chunks; a worker maps func over one chunk; the result   *)
(* list starts as [None] * len(tasks) and each finished chunk is written   *)
(* at its own position.                                                    *)
(***************************************************************************)
NumChunks(length, chunksize) ==
    IF chunksize <= 0 THEN 0 ELSE (length + chunksize - 1) \div chunksize

ChunkLo(c, chunksize) == (c - 1) * chunksize + 1

ChunkHi(c, chunksize, length) ==
    IF c * chunksize < length THEN c * chunksize ELSE length

\* mapstar: the function of the pass over the tasks lo..hi
MapStar(kind, pass, optional, tasks, params, lo, hi) ==
    [j \in 1..(hi - lo + 1) |-> WorkItem(kind, pass, optional, tasks[lo + j - 1], params)]

\* a finished chunk written behind the results that arrived before it
Fill_append(value, lo, result) ==
    [k \in DOMAIN value |->
        IF /\ k > Cardinality({j \in DOMAIN value : value[j] # <<>>})
           /\ k <= Cardinality({j \in DOMAIN value : value[j] # <<>>}) + Len(result)
        THEN <<result[k - Cardinality({j \in DOMAIN value : value[j] # <<>>})]>>
        ELSE value[k]]

\* MapResult._set: value[i * chunksize:(i + 1) * chunksize] = result
Fill(value, lo, result) ==
    [k \in DOMAIN value |->
        IF k >= lo /\ k < lo + Len(result) THEN <<result[k - lo + 1]>> ELSE value[k]]

\* MapResult.get with the worker's exception dropped
MapGet_swallow(value, failed) == [raised |-> FALSE, value |-> value]

\* MapResult.get: the list of results, or the exception a worker raised
MapGet(value, failed) ==
    IF failed THEN [raised |-> TRUE, value |-> <<>>]
    ELSE [raised |-> FALSE, value |-> value]

HasNone(value) == \E k \in DOMAIN value : value[k] = <<>>

Unwrap(value) == [k \in DOMAIN value |-> value[k][1]]

\* sum(result) / float(pairs)
Marginal(result) == Q(Cardinality({k \in DOMAIN result : result[k]}), Len(result))

(***************************************************************************)
(* likelihood_products and bayes_posterior on tables: a table is the list  *)
(* of its rows, a row is addressed by its index (e1, e2).                  *)
(***************************************************************************)
RowAt(df, e1, e2) == df[CHOOSE k \in DOMAIN df : df[k].e1 = e1 /\ df[k].e2 = e2]

\* the product of two rows with the no-match column left as it was
MulRow_match_only(x, y) ==
    [e1 |-> x.e1, e2 |-> x.e2, p1 |-> RMul(x.p1, y.p1), p2 |-> x.p2]

\* operator.mul on two rows of the same index
MulRow(x, y) ==
    [e1 |-> x.e1, e2 |-> x.e2, p1 |-> RMul(x.p1, y.p1), p2 |-> RMul(x.p2, y.p2)]

MulTables(x, y) == [k \in DOMAIN x |-> MulRow(x[k], RowAt(y, x[k].e1, x[k].e2))]

RECURSIVE FoldTables(_, _, _)
FoldTables(dfs, k, acc) ==
    IF k > Len(dfs) THEN acc ELSE FoldTables(dfs, k + 1, MulTables(acc, dfs[k]))

\* reduce(operator.mul, likelihood_dfs, 1.0)
likelihood_products(likelihood_dfs) == FoldTables(likelihood_dfs, 2, likelihood_dfs[1])

\* a / s; a zero s leaves the undefined value (nan or inf), written with a
\* zero denominator
Ratio(a, s) ==
    IF RIsZero(s)
    THEN [neg |-> a.neg, n |-> IF RIsZero(a) THEN <<>> ELSE <<1>>, d |-> <<>>]
    ELSE RDiv(a, s)

\* p_2 / (p_1 + p_2): the complement of the posterior
PosteriorOver_complement(p_1, p_2) == Ratio(p_2, RAdd(p_1, p_2))

\* p_1 / (p_1 + p_2)
PosteriorOver(p_1, p_2) == Ratio(p_1, RAdd(p_1, p_2))

PosteriorRow(prior, row) ==
    [e1 |-> row.e1, e2 |-> row.e2,
     p |-> PosteriorOver(RMul(prior, row.p1), RMul(RSub(ROne, prior), row.p2))]

\* bayes_posterior: p_1 / (p_1 + p_2) per row
bayes_posterior(prior, likelihood_df) ==
    [k \in DOMAIN likelihood_df |-> PosteriorRow(prior, likelihood_df[k])]

RowsOf(tables) == [k \in DOMAIN tables |-> tables[k].rows]

\* the tuple returned: the joint posterior, then one posterior per channel
Posteriors(prior, dfs) ==
    <<bayes_posterior(prior, likelihood_products(dfs))>>
        \o [k \in DOMAIN dfs |-> bayes_posterior(prior, dfs[k])]

\* the columns of one row of the log: p1 and p2 of every table at (e1, e2)
LogColumns(dfs, e1, e2) ==
    [t \in DOMAIN dfs |-> P(RowAt(dfs[t], e1, e2).p1, RowAt(dfs[t], e1, e2).p2)]

\* the chain of pd.merge(..., left_index=True, right_index=True)
MergeLog(dfs) ==
    [k \in DOMAIN dfs[1] |->
        [e1 |-> dfs[1][k].e1, e2 |-> dfs[1][k].e2,
         columns |-> LogColumns(dfs, dfs[1][k].e1, dfs[1][k].e2)]]

(***************************************************************************)
(* BayesianCompoundPredictor and BayesianReactionPredictor: map_p is the   *)
(* tuple the mapping function returned, kept as _compound_map_p or         *)
(* _reaction_map_p.                                                        *)
(***************************************************************************)
\* map(c1, c2): self._compound_map_p[0][c1, c2]
map(map_p, e1, e2) == RowAt(map_p[1], e1, e2).p

\* get_raw_map: a row per pair, the column p and a column per channel
get_raw_map(map_p) ==
    [k \in DOMAIN map_p[1] |->
        [e1 |-> map_p[1][k].e1, e2 |-> map_p[1][k].e2, p |-> map_p[1][k].p,
         channels |-> [i \in 1..(Len(map_p) - 1) |->
                          RowAt(map_p[i + 1], map_p[1][k].e1, map_p[1][k].e2).p]]]

\* the rows of the query group of row k with a greater p
Above(raw_map, k) ==
    {j \in DOMAIN raw_map : raw_map[j].e1 = raw_map[k].e1 /\ RLt(raw_map[k].p, raw_map[j].p)}

\* groupby(query).rank(method='first', ascending=False) of row k
RankInGroup_first(raw_map, k) ==
    1 + Cardinality(Above(raw_map, k))
      + Cardinality({j \in 1..(k - 1) : /\ raw_map[j].e1 = raw_map[k].e1
                                        /\ REq(raw_map[k].p, raw_map[j].p)})

\* groupby(query).rank(method='min', ascending=False) of row k
RankInGroup(raw_map, k) == 1 + Cardinality(Above(raw_map, k))

\* .loc[lambda x: x == 1].index.values; an undefined p has no rank
best_index(raw_map) ==
    {k \in DOMAIN raw_map : raw_map[k].p.d # <<>> /\ RankInGroup(raw_map, k) = 1}

\* raw_map.loc[best_index] and query('p >= @threshold'), from row k on
RECURSIVE BestFrom(_, _, _, _)
BestFrom(raw_map, index, threshold_, k) ==
    IF k > Len(raw_map) THEN <<>>
    ELSE IF k \in index /\ RLe(threshold_, raw_map[k].p)
    THEN <<raw_map[k]>> \o BestFrom(raw_map, index, threshold_, k + 1)
    ELSE BestFrom(raw_map, index, threshold_, k + 1)

\* get_best_map
get_best_map(map_p, threshold_) ==
    BestFrom(get_raw_map(map_p), best_index(get_raw_map(map_p)), threshold_, 1)

\* the prior with max(n, m) in place of min(n, m)
Prior_larger_collection(n, m) ==
    RDiv(RMul(Q(95, 100), Q(IF n < m THEN m ELSE n, 1)), Q(n * m, 1))

\* 0.95 * min(n, m) / pairs
Prior(n, m) == RDiv(RMul(Q(95, 100), Q(IF n < m THEN n ELSE m, 1)), Q(n * m, 1))

(***************************************************************************)
(* State: one evaluation of the equation channel for a reaction pair, and   *)
(* one call of map_model_compounds or map_model_reactions.                 *)
(***************************************************************************)
VARIABLES
    eq_pc,          \* position in reaction_equation_compound_mapping_likelihood
    r1_equation,    \* r1.equation
    r2_equation,    \* r2.equation
    eq_cpd_pred,    \* the compound posterior table handed to the channel
    eq_ord1,        \* iteration order of the sets of r1's names
    eq_ord2,        \* iteration order of the sets of r2's names
    cpd_sets,       \* cpd_set1_left, cpd_set1_right, cpd_set2_left, cpd_set2_right
    p_forward,      \* (p_forward_match, p_forward_no_match) and the two calls
    p_reverse,      \* (p_reverse_match, p_reverse_no_match) and the two calls
    eq_result,      \* the returned (p_match, p_no_match)
    matcher_calls,  \* calls of the set matcher made so far; each reads cpd_pred
    map_pc,         \* position in map_model_compounds / map_model_reactions
    kind,           \* "compound" or "reaction": which of the two functions runs
    model1,         \* model1.compounds or model1.reactions, in iteration order
    model2,         \* model2.compounds or model2.reactions, in iteration order
    cpd_pred,       \* the compound posterior table handed to map_model_reactions
    nproc,          \* the worker count
    optional,       \* the kegg switch or the gene switch
    prior,          \* compound_prior or reaction_prior
    chunksize,      \* pairs // nproc
    pass,           \* index of the pool.map in progress
    params,         \* the params tuple of the likelihood pass in progress
    marg,           \* the marginals computed by the marginal passes
    pending,        \* the chunks of the pass no worker has taken
    running,        \* the chunks workers are computing
    value,          \* MapResult._value: the result list of the pass
    failed,         \* a worker has raised in this pass
    started,        \* the chunks in the order workers took them
    overtaken,      \* a chunk of the pass returned before an earlier one
    log,            \* the log switch
    log_file,       \* the rows written to compound_log.tsv / reaction_log.tsv
    tables,         \* the likelihood tables returned so far
    result,         \* the tuple of posterior tables returned
    error,          \* the exception that left the function
    compound_map_p, \* BayesianCompoundPredictor._compound_map_p
    threshold,      \* the threshold handed to get_best_map
    best_map,       \* the rows get_best_map returned
    post_pc,        \* position in one application of bayes_posterior
    post_prior,     \* its prior
    post_likelihood,\* its likelihood table, of one row
    post_out        \* the posterior it returned

eqVars == <<eq_pc, r1_equation, r2_equation, eq_cpd_pred, eq_ord1, eq_ord2,
            cpd_sets, p_forward, p_reverse, eq_result, matcher_calls>>

mapInputs == <<kind, model1, model2, cpd_pred, nproc, optional, log>>

mapVars == <<map_pc, mapInputs, prior, chunksize, pass, params, marg, pending,
             running, value, failed, started, overtaken, tables, log_file,
             result, error>>

predictorVars == <<compound_map_p, threshold, best_map>>

postVars == <<post_pc, post_prior, post_likelihood, post_out>>

vars == <<eqVars, mapVars, predictorVars, postVars>>

None == "None"

NoParams == Params(RZero, RZero, RZero)

NoMarg == [id |-> RZero, name |-> RZero, formula |-> RZero]

PredictorIdle ==
    /\ compound_map_p = <<>>
    /\ threshold = RZero
    /\ best_map = <<>>

PostIdle ==
    /\ post_pc = "idle"
    /\ post_prior = RZero
    /\ post_likelihood = <<>>
    /\ post_out = RZero

MapIdle ==
    /\ PredictorIdle
    /\ map_pc = "idle"
    /\ kind = "compound"
    /\ model1 = <<>>
    /\ model2 = <<>>
    /\ cpd_pred = <<>>
    /\ nproc = 1
    /\ optional = FALSE
    /\ log = FALSE
    /\ prior = RZero
    /\ chunksize = 0
    /\ pass = 0
    /\ params = NoParams
    /\ marg = NoMarg
    /\ pending = <<>>
    /\ running = {}
    /\ value = <<>>
    /\ failed = FALSE
    /\ started = <<>>
    /\ overtaken = FALSE
    /\ tables = <<>>
    /\ log_file = <<>>
    /\ result = <<>>
    /\ error = ""

EqIdle ==
    /\ eq_pc = "idle"
    /\ r1_equation = {}
    /\ r2_equation = {}
    /\ eq_cpd_pred = <<>>
    /\ eq_ord1 = <<>>
    /\ eq_ord2 = <<>>
    /\ cpd_sets = None
    /\ p_forward = None
    /\ p_reverse = None
    /\ eq_result = None
    /\ matcher_calls = 0

Equations == {e \in SUBSET (Names \X {-1, 1}) : Cardinality(e) <= MaxCpds}

Tables == UNION {[D -> Scores] : D \in SUBSET (Names \X Names)}

EqInit ==
    /\ eq_pc = "call"
    /\ r1_equation \in Equations \cup {NoEquation}
    /\ r2_equation \in Equations \cup {NoEquation}
    /\ eq_cpd_pred \in Tables
    /\ eq_ord1 \in Orders
    /\ eq_ord2 \in Orders
    /\ cpd_sets = None
    /\ p_forward = None
    /\ p_reverse = None
    /\ eq_result = None
    /\ matcher_calls = 0
    /\ MapIdle
    /\ PostIdle

EqInputs == <<r1_equation, r2_equation, eq_cpd_pred, eq_ord1, eq_ord2>>

\* reaction_equation_compound_mapping_likelihood, an equation undefined
EqUndefined ==
    /\ eq_pc = "call"
    /\ EquationUndefined(r1_equation, r2_equation)
    /\ eq_result' = [p_match |-> ROne, p_no_match |-> ROne]
    /\ eq_pc' = "done"
    /\ UNCHANGED <<EqInputs, cpd_sets, p_forward, p_reverse, matcher_calls>>
    /\ UNCHANGED <<mapVars, predictorVars, postVars>>

\* get_best_p_value_set: the four get_cpd_set calls
EqSets ==
    /\ eq_pc = "call"
    /\ ~EquationUndefined(r1_equation, r2_equation)
    /\ cpd_sets' = [s1_left |-> get_cpd_set(r1_equation, TRUE),
                    s1_right |-> get_cpd_set(r1_equation, FALSE),
                    s2_left |-> get_cpd_set(r2_equation, TRUE),
                    s2_right |-> get_cpd_set(r2_equation, FALSE)]
    /\ eq_pc' = "forward"
    /\ UNCHANGED <<EqInputs, p_forward, p_reverse, eq_result, matcher_calls>>
    /\ UNCHANGED <<mapVars, predictorVars, postVars>>

\* get_best_p_value_set: the forward hypothesis; the call removes the
\* committed compounds from the four sets
EqForward ==
    /\ eq_pc = "forward"
    /\ p_forward' = merge_partial_p_set(
                         cpd_sets.s1_left, cpd_sets.s2_left, eq_cpd_pred,
                         cpd_sets.s1_right, cpd_sets.s2_right, eq_ord1, eq_ord2)
    /\ cpd_sets' = [s1_left |-> p_forward'.s1_left, s1_right |-> p_forward'.s1_right,
                    s2_left |-> p_forward'.s2_left, s2_right |-> p_forward'.s2_right]
    /\ eq_pc' = "reverse"
    /\ matcher_calls' = matcher_calls + 2
    /\ r1_equation' = EquationLeft(r1_equation, cpd_sets'.s1_left, cpd_sets'.s1_right)
    /\ r2_equation' = EquationLeft(r2_equation, cpd_sets'.s2_left, cpd_sets'.s2_right)
    /\ UNCHANGED <<eq_cpd_pred, eq_ord1, eq_ord2, p_reverse, eq_result>>
    /\ UNCHANGED <<mapVars, predictorVars, postVars>>

\* get_best_p_value_set: the reverse hypothesis, on the same set objects
EqReverse ==
    /\ eq_pc = "reverse"
    /\ p_reverse' = merge_partial_p_set(
                         cpd_sets.s1_left, cpd_sets.s2_right, eq_cpd_pred,
                         cpd_sets.s1_right, cpd_sets.s2_left, eq_ord1, eq_ord2)
    /\ cpd_sets' = [s1_left |-> p_reverse'.s1_left, s1_right |-> p_reverse'.s1_right,
                    s2_left |-> p_reverse'.s2_right, s2_right |-> p_reverse'.s2_left]
    /\ eq_pc' = "select"
    /\ matcher_calls' = matcher_calls + 2
    /\ r1_equation' = EquationLeft(r1_equation, cpd_sets'.s1_left, cpd_sets'.s1_right)
    /\ r2_equation' = EquationLeft(r2_equation, cpd_sets'.s2_left, cpd_sets'.s2_right)
    /\ UNCHANGED <<eq_cpd_pred, eq_ord1, eq_ord2, p_forward, eq_result>>
    /\ UNCHANGED <<mapVars, predictorVars, postVars>>

\* get_best_p_value_set: keep the direction with the better ratio
EqSelect ==
    /\ eq_pc = "select"
    /\ eq_result' = Selected(p_forward, p_reverse)
    /\ eq_pc' = "done"
    /\ UNCHANGED <<EqInputs, cpd_sets, p_forward, p_reverse, matcher_calls>>
    /\ UNCHANGED <<mapVars, predictorVars, postVars>>

EqNext == EqUndefined \/ EqSets \/ EqForward \/ EqReverse \/ EqSelect

EqSpec == EqInit /\ [][EqNext]_vars

(***************************************************************************)
(* map_model_compounds and map_model_reactions: the coordinating process   *)
(* and the workers of its pool.                                            *)
(***************************************************************************)
\* the call: two collections, the worker count and the kegg or gene switch
MapInit ==
    /\ EqIdle
    /\ PostIdle
    /\ PredictorIdle
    /\ map_pc = "start"
    /\ \/ /\ kind \in {"compound", "reaction"}
          /\ model1 \in Collections(IF kind = "compound" THEN CompoundsA ELSE ReactionsA)
          /\ model2 \in Collections(IF kind = "compound" THEN CompoundsB ELSE ReactionsB)
          /\ nproc \in 1..MaxProc
          /\ optional \in BOOLEAN
          /\ log \in BOOLEAN
       \/ /\ kind = "compound"
          /\ model1 \in Collections(CompoundsA) \cup {Scenario, Crowd}
          /\ model2 = model1
          /\ nproc = 1
          /\ optional = TRUE
          /\ log = FALSE
    /\ cpd_pred = (IF kind = "compound" THEN <<>> ELSE CpdPred)
    /\ prior = RZero
    /\ chunksize = 0
    /\ pass = 0
    /\ params = NoParams
    /\ marg = NoMarg
    /\ pending = <<>>
    /\ running = {}
    /\ value = <<>>
    /\ failed = FALSE
    /\ started = <<>>
    /\ overtaken = FALSE
    /\ tables = <<>>
    /\ log_file = <<>>
    /\ result = <<>>
    /\ error = ""

\* the head of the function: the pairs, the prior, the chunk size, the pool
Start ==
    /\ map_pc = "start"
    /\ IF Len(model1) * Len(model2) = 0
       THEN /\ map_pc' = "raised"
            /\ error' = "ZeroDivisionError"
            /\ UNCHANGED <<prior, chunksize, pass>>
       ELSE /\ prior' = Prior(Len(model1), Len(model2))
            /\ chunksize' = (Len(model1) * Len(model2)) \div nproc
            /\ pass' = 1
            /\ map_pc' = "dispatch"
            /\ error' = error
    /\ UNCHANGED <<mapInputs, params, marg, pending,
                   running, value, failed, started, tables, result>>
    /\ UNCHANGED <<overtaken, log_file>>
    /\ UNCHANGED <<eqVars, predictorVars, postVars>>

\* pool.map is entered: the marginals computed in line, the params tuple,
\* the chunks queued, the result list all None
Dispatch ==
    /\ map_pc = "dispatch"
    /\ params' = IF Passes(kind)[pass].marg THEN params
                 ELSE PassParams(kind, Passes(kind)[pass].channel, optional,
                                 prior, marg, Tasks(model1, model2), cpd_pred)
    /\ pending' = [c \in 1..NumChunks(Len(model1) * Len(model2), chunksize) |-> c]
    /\ running' = {}
    /\ value' = [k \in 1..(Len(model1) * Len(model2)) |-> <<>>]
    /\ failed' = FALSE
    /\ started' = <<>>
    /\ map_pc' = "running"
    /\ UNCHANGED <<mapInputs, prior, chunksize, pass,
                   marg, tables, result, error>>
    /\ overtaken' = FALSE
    /\ UNCHANGED log_file
    /\ UNCHANGED <<eqVars, predictorVars, postVars>>

\* an idle worker takes the next chunk.  Once a worker has raised, the job
\* has left the pool's cache and what the workers do no longer reaches it.
WorkerTake ==
    /\ map_pc = "running"
    /\ ~failed
    /\ pending # <<>>
    /\ Cardinality(running) < nproc
    /\ running' = running \cup {Head(pending)}
    /\ pending' = Tail(pending)
    /\ started' = Append(started, Head(pending))
    /\ UNCHANGED <<map_pc, mapInputs, prior, chunksize,
                   pass, params, marg, value, failed, tables, result, error>>
    /\ UNCHANGED <<overtaken, log_file>>
    /\ UNCHANGED <<eqVars, predictorVars, postVars>>

\* a worker finishes its chunk and the results are written into the list
WorkerReturn(c) ==
    /\ map_pc = "running"
    /\ ~failed
    /\ c \in running
    /\ running' = running \ {c}
    /\ value' = Fill(value, ChunkLo(c, chunksize),
                     MapStar(kind, Passes(kind)[pass], optional,
                             Tasks(model1, model2), params,
                             ChunkLo(c, chunksize), ChunkHi(c, chunksize, Len(value))))
    /\ UNCHANGED <<map_pc, mapInputs, prior, chunksize,
                   pass, params, marg, pending, failed, started, tables, result, error>>
    /\ overtaken' = (overtaken \/ \E b \in running : b < c)
    /\ UNCHANGED log_file
    /\ UNCHANGED <<eqVars, predictorVars, postVars>>

\* a worker raises in its chunk
WorkerRaise(c) ==
    /\ map_pc = "running"
    /\ ~failed
    /\ c \in running
    /\ running' = running \ {c}
    /\ failed' = TRUE
    /\ UNCHANGED <<map_pc, mapInputs, prior, chunksize,
                   pass, params, marg, pending, value, started, tables, result, error>>
    /\ UNCHANGED <<overtaken, log_file>>
    /\ UNCHANGED <<eqVars, predictorVars, postVars>>

\* pool.map has its result: a worker failed, or no chunk is left
Ready == failed \/ (pending = <<>> /\ running = {})

\* pool.map raises the worker's exception in the caller
JoinRaise ==
    /\ map_pc = "running"
    /\ Ready
    /\ MapGet(value, failed).raised
    /\ map_pc' = "raised"
    /\ error' = "WorkerError"
    /\ UNCHANGED <<mapInputs, prior, chunksize, pass,
                   params, marg, pending, running, value, failed, started, tables,
                   result>>
    /\ UNCHANGED <<overtaken, log_file>>
    /\ UNCHANGED <<eqVars, predictorVars, postVars>>

\* pool.map returns a list holding None: sum(result) and
\* DataFrame.from_records(result) raise TypeError
JoinNone ==
    /\ map_pc = "running"
    /\ Ready
    /\ ~MapGet(value, failed).raised
    /\ HasNone(MapGet(value, failed).value)
    /\ map_pc' = "raised"
    /\ error' = "TypeError"
    /\ UNCHANGED <<mapInputs, prior, chunksize, pass,
                   params, marg, pending, running, value, failed, started, tables,
                   result>>
    /\ UNCHANGED <<overtaken, log_file>>
    /\ UNCHANGED <<eqVars, predictorVars, postVars>>

\* a marginal pass returns: sum(result) / float(pairs)
JoinMarg ==
    /\ map_pc = "running"
    /\ Ready
    /\ ~MapGet(value, failed).raised
    /\ ~HasNone(MapGet(value, failed).value)
    /\ Passes(kind)[pass].marg
    /\ marg' = [marg EXCEPT ![Passes(kind)[pass].channel] =
                   Marginal(Unwrap(MapGet(value, failed).value))]
    /\ pass' = pass + 1
    /\ map_pc' = "dispatch"
    /\ UNCHANGED <<mapInputs, prior, chunksize, params,
                   pending, running, value, failed, started, tables, result, error>>
    /\ UNCHANGED <<overtaken, log_file>>
    /\ UNCHANGED <<eqVars, predictorVars, postVars>>

\* pairwise_likelihood returns the table of the pass
JoinTable ==
    /\ map_pc = "running"
    /\ Ready
    /\ ~MapGet(value, failed).raised
    /\ ~HasNone(MapGet(value, failed).value)
    /\ ~Passes(kind)[pass].marg
    /\ tables' = Append(tables, [channel |-> Passes(kind)[pass].channel,
                                 rows |-> Unwrap(MapGet(value, failed).value)])
    /\ IF pass = Len(Passes(kind))
       THEN map_pc' = "finish" /\ pass' = pass
       ELSE map_pc' = "dispatch" /\ pass' = pass + 1
    /\ UNCHANGED <<mapInputs, prior, chunksize, params,
                   marg, pending, running, value, failed, started, result, error>>
    /\ UNCHANGED <<overtaken, log_file>>
    /\ UNCHANGED <<eqVars, predictorVars, postVars>>

\* pool.close(), pool.join() and the return of the posteriors
Finish ==
    /\ map_pc = "finish"
    /\ result' = Posteriors(prior, RowsOf(tables))
    /\ map_pc' = "returned"
    /\ UNCHANGED <<mapInputs, prior, chunksize, pass,
                   params, marg, pending, running, value, failed, started, tables,
                   error>>
    /\ log_file' = (IF log THEN MergeLog(RowsOf(tables)) ELSE <<>>)
    /\ UNCHANGED overtaken
    /\ UNCHANGED <<eqVars, predictorVars, postVars>>

\* the thresholds get_best_map is called with
Thresholds == {Q(1, 100), ROne}

\* get_best_map(threshold) on the predictor the constructor has built
GetBestMap(t) ==
    /\ map_pc = "returned"
    /\ threshold' = t
    /\ best_map' = get_best_map(result, t)
    /\ map_pc' = "queried"
    /\ UNCHANGED <<mapInputs, prior, chunksize, pass, params, marg, pending,
                   running, value, failed, started, overtaken, tables, log_file,
                   result, error, compound_map_p>>
    /\ UNCHANGED <<eqVars, postVars>>

MapNext ==
    \/ Start
    \/ Dispatch
    \/ WorkerTake
    \/ \E c \in 1..(MaxEntities * MaxEntities) : WorkerReturn(c)
    \/ \E c \in 1..(MaxEntities * MaxEntities) : WorkerRaise(c)
    \/ JoinRaise
    \/ JoinNone
    \/ JoinMarg
    \/ JoinTable
    \/ Finish
    \/ \E t \in Thresholds : GetBestMap(t)

MapSpec == MapInit /\ [][MapNext]_vars

(***************************************************************************)
(* A compound mapping followed by a reaction mapping: the caller builds    *)
(* the compound predictor and hands its joint posterior to the reaction    *)
(* predictor as cpd_pred.                                                  *)
(***************************************************************************)
\* the joint posterior as the Series indexed by (c1, c2)
TableOfPosterior(df) ==
    [pair \in {<<df[k].e1, df[k].e2>> : k \in DOMAIN df} |->
        RowAt(df, pair[1], pair[2]).p]

ChainInit ==
    /\ EqIdle
    /\ PostIdle
    /\ PredictorIdle
    /\ map_pc = "start"
    /\ kind = "compound"
    /\ model1 = ChainCompounds1
    /\ model2 = ChainCompounds2
    /\ cpd_pred = <<>>
    /\ nproc \in 1..MaxProc
    /\ optional \in BOOLEAN
    /\ log \in BOOLEAN
    /\ prior = RZero
    /\ chunksize = 0
    /\ pass = 0
    /\ params = NoParams
    /\ marg = NoMarg
    /\ pending = <<>>
    /\ running = {}
    /\ value = <<>>
    /\ failed = FALSE
    /\ started = <<>>
    /\ overtaken = FALSE
    /\ tables = <<>>
    /\ log_file = <<>>
    /\ result = <<>>
    /\ error = ""

\* BayesianReactionPredictor(model1, model2, cpd_pred, ...) once the
\* compound predictor is built
CallReactions ==
    /\ map_pc = "returned"
    /\ kind = "compound"
    /\ compound_map_p' = result
    /\ cpd_pred' = TableOfPosterior(result[1])
    /\ kind' = "reaction"
    /\ model1' = ChainReactions1
    /\ model2' \in {ChainReactions2, <<ChainReactions2[1]>>}
    /\ map_pc' = "start"
    /\ prior' = RZero
    /\ chunksize' = 0
    /\ pass' = 0
    /\ params' = NoParams
    /\ marg' = NoMarg
    /\ pending' = <<>>
    /\ running' = {}
    /\ value' = <<>>
    /\ failed' = FALSE
    /\ started' = <<>>
    /\ overtaken' = FALSE
    /\ tables' = <<>>
    /\ log_file' = <<>>
    /\ result' = <<>>
    /\ error' = ""
    /\ UNCHANGED <<nproc, optional, log, threshold, best_map>>
    /\ UNCHANGED <<eqVars, postVars>>

ChainNext == MapNext \/ CallReactions

ChainSpec == ChainInit /\ [][ChainNext]_vars

(***************************************************************************)
(* Properties of the Equation Matcher.                                     *)
(***************************************************************************)
SameP(x, y) == REq(x.p_match, y.p_match) /\ REq(x.p_no_match, y.p_no_match)

\* an equation with its left and right sides exchanged
Reversed(equation) ==
    IF equation = NoEquation THEN NoEquation
    ELSE {<<e[1], -e[2]>> : e \in equation}

\* C8: reversing both reactions' equations (each one's left and right sets
\* exchanged) leaves the (p_match, p_no_match) returned for the pair unchanged.
C8_DirectionInvariant ==
    eq_pc = "done" =>
        SameP(eq_result,
              reaction_equation_compound_mapping_likelihood(
                  Reversed(r1_equation), Reversed(r2_equation),
                  eq_cpd_pred, eq_ord1, eq_ord2))

\* a finished evaluation of two two-sided equations in which the forward
\* hypothesis committed a pair and the two hypotheses score differently
C8_Witness ==
    /\ eq_pc = "done"
    /\ r1_equation # NoEquation /\ r2_equation # NoEquation
    /\ get_cpd_set(r1_equation, TRUE) # {} /\ get_cpd_set(r1_equation, FALSE) # {}
    /\ get_cpd_set(r2_equation, TRUE) # {} /\ get_cpd_set(r2_equation, FALSE) # {}
    /\ get_cpd_set(r1_equation, TRUE) # get_cpd_set(r1_equation, FALSE)
    /\ Len(p_forward.left.commits) = 1
    /\ ~SameP(p_forward, p_reverse)

\* the two calls of the greedy set matcher made by the step just taken: the
\* two argument sets as passed and the call's result
MatcherCalls ==
    IF eq_pc = "reverse"
    THEN {[set1 |-> get_cpd_set(r1_equation, TRUE),
           set2 |-> get_cpd_set(r2_equation, TRUE), out |-> p_forward.left],
          [set1 |-> get_cpd_set(r1_equation, FALSE),
           set2 |-> get_cpd_set(r2_equation, FALSE), out |-> p_forward.right]}
    ELSE IF eq_pc = "select"
    THEN {[set1 |-> p_forward.s1_left, set2 |-> p_forward.s2_right,
           out |-> p_reverse.left],
          [set1 |-> p_forward.s1_right, set2 |-> p_forward.s2_left,
           out |-> p_reverse.right]}
    ELSE {}

\* the candidate pairs of a call
Candidates(set1, set2) == {p \in set1 \X set2 : p \in DOMAIN eq_cpd_pred}

\* two different candidate pairs that share a compound have equal scores
SharedTie(set1, set2) ==
    \E p, q \in Candidates(set1, set2) :
        /\ p # q
        /\ p[1] = q[1] \/ p[2] = q[2]
        /\ REq(eq_cpd_pred[p], eq_cpd_pred[q])

OrderIndependent(c) ==
    \A o1, o2 \in Orders :
        SameP(c.out,
              reaction_equation_mapping_approx_max_likelihood(
                  c.set1, c.set2, eq_cpd_pred, o1, o2))

\* C9 as stated: the greedy set matcher returns the same (p_match,
\* p_no_match) for every iteration order of either input set, equal scores
\* included.
C9_AnyOrderSameResult == \A c \in MatcherCalls : OrderIndependent(c)

\* C9 amended: the greedy set matcher returns the same (p_match, p_no_match)
\* for every iteration order of either input set, provided no two candidate
\* pairs that share a compound have equal scores.
C9_OrderIndependentWithoutSharedTies ==
    \A c \in MatcherCalls : ~SharedTie(c.set1, c.set2) => OrderIndependent(c)

\* a call with two compounds on each side, three or more candidates, none
\* tied with a candidate sharing a compound, of which one was passed over
C9_Witness ==
    \E c \in MatcherCalls :
        /\ Cardinality(c.set1) = 2 /\ Cardinality(c.set2) = 2
        /\ Cardinality(Candidates(c.set1, c.set2)) >= 3
        /\ ~SharedTie(c.set1, c.set2)
        /\ Len(c.out.commits) < Cardinality(Candidates(c.set1, c.set2))

\* the product over the compounds X of a set of 0.9*s(X,X) + 0.1*(1 - s(X,X))
RECURSIVE IdentityProduct(_)
IdentityProduct(set) ==
    IF set = {} THEN ROne
    ELSE LET x == CHOOSE c \in set : TRUE
         IN  RMul(MatchFactor(eq_cpd_pred[<<x, x>>]), IdentityProduct(set \ {x}))

\* R2's equation is R1's with the sides exchanged (R1 has compounds on both
\* sides, none on both), and the table scores every identity pair of R1's
\* compounds higher than every other pair
ReversedPairFavouringIdentity ==
    /\ r1_equation # NoEquation
    /\ get_cpd_set(r1_equation, TRUE) # {}
    /\ get_cpd_set(r1_equation, FALSE) # {}
    /\ get_cpd_set(r1_equation, TRUE) \cap get_cpd_set(r1_equation, FALSE) = {}
    /\ r2_equation = Reversed(r1_equation)
    /\ \A e \in r1_equation : <<e[1], e[1]>> \in DOMAIN eq_cpd_pred
    /\ \A e \in r1_equation : \A p \in DOMAIN eq_cpd_pred :
           p[1] # p[2] => RLt(eq_cpd_pred[p], eq_cpd_pred[<<e[1], e[1]>>])

\* C10: for R2 the reverse of R1 and a table favouring the identity pairs,
\* the returned p_match is the product of the identity pairings of all of
\* R1's compounds, none counted as unmatched.
C10_ReverseSelected ==
    (eq_pc = "done" /\ ReversedPairFavouringIdentity) =>
        REq(eq_result.p_match,
            RMul(IdentityProduct(get_cpd_set(r1_equation, TRUE)),
                 IdentityProduct(get_cpd_set(r1_equation, FALSE))))

\* the compounds of r1 and of r2, whatever their side
CompoundsOf(equation) == {c[1] : c \in equation}

\* no pair (compound of r1, compound of r2) is in the index of cpd_pred
NoCandidatePair ==
    \A c1 \in CompoundsOf(r1_equation) : \A c2 \in CompoundsOf(r2_equation) :
        <<c1, c2>> \notin DOMAIN eq_cpd_pred

\* the compounds in the left and right sets of both equations
SideCompounds ==
    Cardinality(get_cpd_set(r1_equation, TRUE)) + Cardinality(get_cpd_set(r1_equation, FALSE))
    + Cardinality(get_cpd_set(r2_equation, TRUE)) + Cardinality(get_cpd_set(r2_equation, FALSE))

BothDefined == r1_equation # NoEquation /\ r2_equation # NoEquation

\* C11: when no pair (compound of r1, compound of r2) is in the compound
\* posterior table, the equation channel returns p_match = 0.1^N and
\* p_no_match = 0.9^N, N the number of compounds in the left and right sets
\* of both equations.
C11_NoCandidatesOnlyUnmatchedConstants ==
    (eq_pc = "done" /\ BothDefined /\ NoCandidatePair) =>
        /\ REq(eq_result.p_match, RPow(Q(1, 10), SideCompounds))
        /\ REq(eq_result.p_no_match, RPow(Q(9, 10), SideCompounds))

\* a pair of equations with compounds on both sides and a table that holds
\* other pairs only
C11_Witness ==
    /\ eq_pc = "done"
    /\ BothDefined
    /\ NoCandidatePair
    /\ DOMAIN eq_cpd_pred # {}
    /\ get_cpd_set(r1_equation, TRUE) # {} /\ get_cpd_set(r1_equation, FALSE) # {}
    /\ get_cpd_set(r2_equation, TRUE) # {} /\ get_cpd_set(r2_equation, FALSE) # {}

\* C12: when either equation is undefined the equation channel returns
\* (1, 1) and the set matcher, the only reader of the compound posterior
\* table, is never called.
C12_UndefinedEquationIsNeutralWithoutMatcher ==
    (eq_pc = "done" /\ ~BothDefined) =>
        /\ REq(eq_result.p_match, ROne)
        /\ REq(eq_result.p_no_match, ROne)
        /\ matcher_calls = 0

\* the second equation alone is undefined, the first has compounds the
\* table scores
C12_Witness ==
    /\ eq_pc = "done"
    /\ r1_equation # NoEquation
    /\ r2_equation = NoEquation
    /\ r1_equation # {}
    /\ DOMAIN eq_cpd_pred # {}
    /\ matcher_calls = 0

\* the four side sets as get_cpd_set returns them
OriginalSets ==
    [s1_left |-> get_cpd_set(r1_equation, TRUE),
     s1_right |-> get_cpd_set(r1_equation, FALSE),
     s2_left |-> get_cpd_set(r2_equation, TRUE),
     s2_right |-> get_cpd_set(r2_equation, FALSE)]

\* the reverse hypothesis scored on the complete side sets
ReverseOnOriginalSets ==
    merge_partial_p_set(OriginalSets.s1_left, OriginalSets.s2_right, eq_cpd_pred,
                        OriginalSets.s1_right, OriginalSets.s2_left, eq_ord1, eq_ord2)

\* C20: both hypotheses are scored on the same original side sets: the
\* forward hypothesis leaves the four sets as get_cpd_set returned them, and
\* the reverse result is the greedy matcher's result on (left1, right2) and
\* (right1, left2) of the complete sets.
C20_HypothesesScoredOnOriginalSets ==
    /\ eq_pc = "reverse" => cpd_sets = OriginalSets
    /\ eq_pc \in {"select", "done"} /\ BothDefined =>
            SameP(p_reverse, ReverseOnOriginalSets)

(***************************************************************************)
(* Claims about the likelihood functions, the passes and the posteriors.   *)
(***************************************************************************)
\* the attribute a channel compares is None in the entity e
Undefined(channel, e) ==
    CASE channel = "id" -> FALSE
      [] channel = "name" -> e.name = <<>>
      [] channel = "charge" -> e.charge = <<>>
      [] channel = "formula" -> e.formula = <<>>
      [] channel = "kegg" -> e.kegg = <<>>
      [] channel = "equation" -> e.equation = NoEquation
      [] OTHER -> e.genes = <<>>

InUnit(x) == x.d # <<>> /\ RLe(RZero, x) /\ RLe(x, ROne)

\* C1: in every likelihood table, the row of a pair in which either compared
\* attribute is None is exactly (1, 1)
C1_UndefinedAttributeIsNeutral ==
    \A t \in DOMAIN tables : \A k \in DOMAIN tables[t].rows :
        LET task == Tasks(model1, model2)[k]
            row == tables[t].rows[k]
        IN  (Undefined(tables[t].channel, task[1]) \/ Undefined(tables[t].channel, task[2]))
                => (REq(row.p1, ROne) /\ REq(row.p2, ROne))

\* C2: every p_match and every p_no_match of every likelihood table lies
\* in [0, 1]
C2_LikelihoodsInUnitInterval ==
    \A t \in DOMAIN tables : \A k \in DOMAIN tables[t].rows :
        InUnit(tables[t].rows[k].p1) /\ InUnit(tables[t].rows[k].p2)

\* C3: for two non-empty collections every value of every returned posterior
\* table (the joint one and one per channel, for every pair) is defined and
\* lies in [0, 1]
C3_PosteriorsDefinedInUnitInterval ==
    (map_pc = "returned" /\ Len(model1) > 0 /\ Len(model2) > 0) =>
        /\ Len(result) = Len(tables) + 1
        /\ \A t \in DOMAIN result :
              /\ Len(result[t]) = Len(model1) * Len(model2)
              /\ \A k \in DOMAIN result[t] : InUnit(result[t][k].p)

\* a returned run of two collections of two in which a no-match likelihood
\* was floored at 0 and the posterior of that row is 1
C3_Witness ==
    /\ map_pc = "returned"
    /\ Len(model1) = 2 /\ Len(model2) = 2
    /\ \E t \in DOMAIN tables : \E k \in DOMAIN tables[t].rows :
          /\ RIsZero(tables[t].rows[k].p2)
          /\ REq(result[t + 1][k].p, ROne)

\* C4: with an empty collection the function raises no division by zero
\* and returns empty tables
C4_EmptyCollectionReturnsEmptyTable ==
    (Len(model1) * Len(model2) = 0 /\ map_pc \notin {"idle", "start"}) =>
        /\ error # "ZeroDivisionError"
        /\ map_pc \in {"raised", "returned"} =>
              (map_pc = "returned" /\ \A t \in DOMAIN result : result[t] = <<>>)

\* pairwise_likelihood has just returned: the pass before the one about to
\* be dispatched, or the last pass, was a likelihood pass
JustReturned ==
    \/ map_pc = "finish"
    \/ map_pc = "dispatch" /\ pass > 1 /\ ~Passes(kind)[pass - 1].marg

\* the table it returned
Returned == tables[Len(tables)]

\* the table pairwise_likelihood builds when one worker maps the likelihood
\* function over the pairs in order
SequentialTable(channel) ==
    LET tasks == Tasks(model1, model2)
        ps == PassParams(kind, channel, optional, prior, marg, tasks, cpd_pred)
    IN  [k \in DOMAIN tasks |-> generate_likelihood(kind, channel, optional, tasks[k], ps)]

\* C5: whatever the worker count, the chunk size and the order in which the
\* workers take and return chunks, the table a pass returns is the table one
\* worker computes pair by pair from the entities and the prior and marginals
C5_TableIndependentOfScheduling ==
    JustReturned => Returned.rows = SequentialTable(Returned.channel)

\* a table was returned by a pass of several workers in which a chunk came
\* back before an earlier one
C5_Witness ==
    /\ JustReturned
    /\ nproc >= 2
    /\ overtaken
    /\ Len(Returned.rows) = Len(model1) * Len(model2)

\* C6: the table pairwise_likelihood returns has n * m rows, exactly one for
\* every pair of the cross product, keyed by the two ids and holding the
\* likelihood of that pair
C6_OneRowPerPair ==
    JustReturned =>
        LET ps == PassParams(kind, Returned.channel, optional, prior, marg,
                             Tasks(model1, model2), cpd_pred)
        IN  /\ Len(Returned.rows) = Len(model1) * Len(model2)
            /\ \A i \in DOMAIN model1 : \A j \in DOMAIN model2 :
                  LET hits == {k \in DOMAIN Returned.rows :
                                  /\ Returned.rows[k].e1 = model1[i].id
                                  /\ Returned.rows[k].e2 = model2[j].id}
                      p == Likelihood(kind, Returned.channel, optional,
                                      model1[i], model2[j], ps)
                  IN  /\ Cardinality(hits) = 1
                      /\ \A k \in hits : /\ Returned.rows[k].p1 = p.p1
                                         /\ Returned.rows[k].p2 = p.p2

\* a table of four rows was returned by a pass of four chunks
C6_Witness ==
    /\ JustReturned
    /\ Len(model1) = 2 /\ Len(model2) = 2
    /\ chunksize = 1
    /\ Len(Returned.rows) = 4

\* the likelihood passes before pass number q
TablesBefore(q) == Cardinality({i \in 1..(q - 1) : ~Passes(kind)[i].marg})

\* C7: once a worker has raised in a pass, the call ends with that error:
\* no table of that pass is kept, nothing is returned, no chunk is taken twice
C7_WorkerFailureAbortsPass ==
    failed =>
        /\ map_pc \in {"running", "raised"}
        /\ map_pc = "raised" => error = "WorkerError"
        /\ Len(tables) = TablesBefore(pass)
        /\ result = <<>>
        /\ \A i, j \in DOMAIN started : started[i] = started[j] => i = j

\* a likelihood pass was aborted by a worker after another chunk had returned
C7_Witness ==
    /\ map_pc = "raised"
    /\ error = "WorkerError"
    /\ failed
    /\ ~Passes(kind)[pass].marg
    /\ \E k \in DOMAIN value : value[k] # <<>>
    /\ Len(tables) = TablesBefore(pass)

(***************************************************************************)
(* bayes_posterior on its own: one call on a table of one row.             *)
(***************************************************************************)
\* priors 0.95 * min(n, m) / (n * m) of small and large collections
PostPriors == {Q(1, 20), Q(19, 40), Q(19, 20)}

\* likelihood values the channels return, p_no_match above 1 included
PostLikelihoods == {RZero, Q(1, 10), Q(65, 100), ROne, Q(29, 10), Q(153, 20)}

OneRow(p_match, p_no_match) ==
    <<[e1 |-> "e1", e2 |-> "e2", p1 |-> p_match, p2 |-> p_no_match]>>

PostInit ==
    /\ EqIdle
    /\ MapIdle
    /\ post_pc = "call"
    /\ post_prior \in PostPriors
    /\ post_likelihood \in {OneRow(a, b) : a \in PostLikelihoods, b \in PostLikelihoods}
    /\ post_out = RZero

\* bayes_posterior(prior, likelihood_df)
PostApply ==
    /\ post_pc = "call"
    /\ post_out' = bayes_posterior(post_prior, post_likelihood)[1].p
    /\ post_pc' = "done"
    /\ UNCHANGED <<post_prior, post_likelihood>>
    /\ UNCHANGED <<eqVars, mapVars, predictorVars>>

PostNext == PostApply

PostSpec == PostInit /\ [][PostNext]_vars

(***************************************************************************)
(* Claims about bayes_posterior.                                           *)
(***************************************************************************)
\* the posterior of the prior of the state and the likelihoods (a, b)
PosteriorAt(a, b) == bayes_posterior(post_prior, OneRow(a, b))[1].p

\* the denominator prior * a + (1 - prior) * b is not zero
Defined(x) == x.d # <<>>

\* C15: for a fixed prior in (0, 1), non-negative likelihoods and a non-zero
\* denominator, bayes_posterior does not decrease when p_match grows and
\* does not increase when p_no_match grows.
C15_PosteriorMonotone ==
    (post_pc = "done" /\ Defined(post_out)) =>
        \A x \in PostLikelihoods :
            /\ (RLe(post_likelihood[1].p1, x) /\ Defined(PosteriorAt(x, post_likelihood[1].p2)))
                  => RLe(post_out, PosteriorAt(x, post_likelihood[1].p2))
            /\ (RLe(post_likelihood[1].p2, x) /\ Defined(PosteriorAt(post_likelihood[1].p1, x)))
                  => RLe(PosteriorAt(post_likelihood[1].p1, x), post_out)

\* a posterior strictly inside (0, 1) that a greater p_match raises and a
\* greater p_no_match lowers
C15_Witness ==
    /\ post_pc = "done"
    /\ Defined(post_out)
    /\ RLt(RZero, post_out) /\ RLt(post_out, ROne)
    /\ \E x \in PostLikelihoods :
          /\ RLt(post_likelihood[1].p1, x)
          /\ RLt(post_out, PosteriorAt(x, post_likelihood[1].p2))
    /\ \E x \in PostLikelihoods :
          /\ RLt(post_likelihood[1].p2, x)
          /\ RLt(PosteriorAt(post_likelihood[1].p1, x), post_out)

(***************************************************************************)
(* Claims about the joint posterior of compound pairs.                     *)
(***************************************************************************)
\* the likelihood table of a channel among the tables returned
TableOf(channel) == (CHOOSE t \in {tables[k] : k \in DOMAIN tables} : t.channel = channel).rows

\* equal ids, equal defined charges, and no name, formula or kegg id to compare
EqualIdAndChargeOnly(c1, c2) ==
    /\ id_equals(c1.id, c2.id)
    /\ c1.charge # <<>> /\ c1.charge = c2.charge
    /\ c1.name = <<>> \/ c2.name = <<>>
    /\ c1.formula = <<>> \/ c2.formula = <<>>
    /\ c1.kegg = <<>> \/ c2.kegg = <<>>

\* C16: for two compounds with equal ids and equal defined charges, the other
\* attributes undefined, the id channel reports p_match 0.65, the charge
\* channel p_match 0.9, and the joint posterior of the pair exceeds the
\* prior, in every pair of non-empty collections that hold them.
C16_EqualIdAndChargeRaisePosterior ==
    (map_pc = "returned" /\ kind = "compound") =>
        \A i \in DOMAIN model1 : \A j \in DOMAIN model2 :
            EqualIdAndChargeOnly(model1[i], model2[j]) =>
                /\ REq(RowAt(TableOf("id"), model1[i].id, model2[j].id).p1, Q(65, 100))
                /\ REq(RowAt(TableOf("charge"), model1[i].id, model2[j].id).p1, Q(9, 10))
                /\ RLt(prior, map(result, model1[i].id, model2[j].id))

\* C17: when the two collections are identical, with ids unique within the
\* collection, the joint posterior of every self-pair (x_i, x_i) is at least
\* the joint posterior of every pair (x_i, x_j), j # i.
C17_SelfPairIsBest ==
    (map_pc = "returned" /\ kind = "compound" /\ model1 = model2) =>
        \A i, j \in DOMAIN model1 :
            RLe(map(result, model1[i].id, model1[j].id),
                map(result, model1[i].id, model1[i].id))

\* the posterior of channel t of the pair is one of the values the row of
\* the log holds for that channel
HoldsChannelPosterior(row, t) ==
    \E cell \in {row.columns[t].p1, row.columns[t].p2} :
        REq(cell, RowAt(result[t + 1], row.e1, row.e2).p)

\* C19: with the log switched on, the file written holds for every pair of
\* the cross product a row indexed by (entity of A, entity of B) with the
\* posterior of every channel for that pair.
C19_LogHoldsChannelPosteriors ==
    (map_pc = "returned" /\ log) =>
        /\ Len(log_file) = Len(model1) * Len(model2)
        /\ \A i \in DOMAIN model1 : \A j \in DOMAIN model2 :
              \E k \in DOMAIN log_file :
                  /\ log_file[k].e1 = model1[i].id
                  /\ log_file[k].e2 = model2[j].id
                  /\ \A t \in DOMAIN tables : HoldsChannelPosterior(log_file[k], t)

(***************************************************************************)
(* Claims about the order of the two mappings.                             *)
(***************************************************************************)
\* the equation pass is in the pool
EquationPassRunning ==
    /\ kind = "reaction"
    /\ map_pc = "running"
    /\ Passes(kind)[pass].channel = "equation"

\* cpd_pred is the joint posterior of the finished compound mapping, with a
\* defined value for every pair of the two compound collections
CompoundTableComplete ==
    /\ compound_map_p # <<>>
    /\ cpd_pred = TableOfPosterior(compound_map_p[1])
    /\ DOMAIN cpd_pred = {<<ChainCompounds1[i].id, ChainCompounds2[j].id>> :
                              i \in DOMAIN ChainCompounds1, j \in DOMAIN ChainCompounds2}
    /\ \A pair \in DOMAIN cpd_pred : cpd_pred[pair].d # <<>>

\* C18: reaction equation scoring never starts before the compound mapping
\* has finished: while the reaction mapping runs the table handed to it is the
\* complete joint posterior of the finished compound mapping, the equation
\* pass reads that table from its first pair on, and no step of the reaction
\* mapping changes it.
C18_EquationPassReadsFinishedCompoundTable ==
    /\ [](kind = "reaction" => CompoundTableComplete)
    /\ [](EquationPassRunning => params.cpd_pred = cpd_pred)
    /\ [][kind = "reaction" => cpd_pred' = cpd_pred]_vars

\* the equation pass has scored its first pair, the two hexokinase
\* reactions, with compounds committed from the table
C18_Witness ==
    /\ EquationPassRunning
    /\ value[1] # <<>>
    /\ Cardinality(DOMAIN cpd_pred) = 4
    /\ ~REq(value[1][1].p1, RPow(Q(1, 10), 4))

(***************************************************************************)
(* Claims about the predictors.                                            *)
(***************************************************************************)
\* row k of the joint posterior table has the greatest p among the rows of
\* its query
IsMaximum(joint, k) ==
    \A j \in DOMAIN joint : joint[j].e1 = joint[k].e1 => RLe(joint[j].p, joint[k].p)

\* the pair of row k is a row of best_map, with the joint posterior of the pair
InBestMap(joint, k) ==
    \E b \in DOMAIN best_map :
        /\ best_map[b].e1 = joint[k].e1
        /\ best_map[b].e2 = joint[k].e2
        /\ REq(best_map[b].p, joint[k].p)

\* C13: get_best_map(threshold) returns exactly the rows (q, c) whose joint
\* posterior is the maximum over the candidates of the query q and is at
\* least the threshold; rows tied at the maximum are all returned.
C13_BestMapIsAllMaximaAboveThreshold ==
    map_pc = "queried" =>
        /\ \A k \in DOMAIN result[1] :
              InBestMap(result[1], k) <=>
                  (IsMaximum(result[1], k) /\ RLe(threshold, result[1][k].p))
        /\ \A b \in DOMAIN best_map : \E k \in DOMAIN result[1] :
              result[1][k].e1 = best_map[b].e1 /\ result[1][k].e2 = best_map[b].e2
        /\ \A a, b \in DOMAIN best_map :
              (best_map[a].e1 = best_map[b].e1 /\ best_map[a].e2 = best_map[b].e2) => a = b

\* a query whose two candidates tie at the maximum and are both returned,
\* and another call in which the threshold removes a maximum
C13_Witness ==
    /\ map_pc = "queried"
    /\ \E a, b \in DOMAIN best_map :
          a # b /\ best_map[a].e1 = best_map[b].e1 /\ REq(best_map[a].p, best_map[b].p)
    /\ Len(best_map) < Len(result[1])

\* the product of a column over the channel tables, the last table first
RECURSIVE ProductBackwards(_, _, _, _, _)
ProductBackwards(i, e1, e2, match, acc) ==
    IF i = 0 THEN acc
    ELSE ProductBackwards(i - 1, e1, e2, match,
             RMul(acc, IF match THEN RowAt(tables[i].rows, e1, e2).p1
                       ELSE RowAt(tables[i].rows, e1, e2).p2))

\* prior * P / (prior * P + (1 - prior) * Q)
PosteriorOfProducts(e1, e2) ==
    PosteriorOver(
        RMul(prior, ProductBackwards(Len(tables), e1, e2, TRUE, ROne)),
        RMul(RSub(ROne, prior), ProductBackwards(Len(tables), e1, e2, FALSE, ROne)))

\* C14: map(id1, id2) is prior * P / (prior * P + (1 - prior) * Q), P and Q
\* the products of p_match and p_no_match of the pair over all channel
\* tables, whatever the order in which the tables are multiplied.
C14_MapIsPosteriorOfChannelProducts ==
    map_pc = "returned" =>
        \A k \in DOMAIN result[1] :
            REq(map(result, result[1][k].e1, result[1][k].e2),
                PosteriorOfProducts(result[1][k].e1, result[1][k].e2))

\* a returned table of several pairs with a pair whose posterior is strictly
\* between 0 and 1 and whose no-match product has a factor other than 1
\* beyond the first table
C14_Witness ==
    /\ map_pc = "returned"
    /\ Len(result[1]) >= 2
    /\ \E k \in DOMAIN result[1] :
          /\ RLt(RZero, result[1][k].p) /\ RLt(result[1][k].p, ROne)
          /\ \E t \in 2..Len(tables) :
                ~REq(RowAt(tables[t].rows, result[1][k].e1, result[1][k].e2).p2, ROne)

(***************************************************************************)
(* The greedy set matcher, call by call.                                   *)
(***************************************************************************)
\* the pairs committed before the i-th commit
CommittedBefore(commits, i) == {commits[j] : j \in 1..(i - 1)}

\* the candidate pairs of the call c whose both endpoints are unmatched
\* before the i-th commit
FreeBefore(c, i) ==
    {p \in Candidates(c.set1, c.set2) :
        \A q \in CommittedBefore(c.out.commits, i) : p[1] # q[1] /\ p[2] # q[2]}

OneToOne(commits) ==
    \A i, j \in DOMAIN commits :
        i # j => commits[i][1] # commits[j][1] /\ commits[i][2] # commits[j][2]

HighestFree(c, i) ==
    /\ c.out.commits[i] \in FreeBefore(c, i)
    /\ \A p \in FreeBefore(c, i) : RLe(eq_cpd_pred[p], eq_cpd_pred[c.out.commits[i]])

\* C21: in every call of the greedy set matcher the committed pairs form a
\* one-to-one matching, each committed pair has the highest score among the
\* candidate pairs whose both endpoints were unmatched when it was committed,
\* and at the end no candidate pair has both endpoints unmatched.
C21_GreedyCommitsHighestFreePair ==
    \A c \in MatcherCalls :
        /\ OneToOne(c.out.commits)
        /\ \A i \in DOMAIN c.out.commits : HighestFree(c, i)
        /\ FreeBefore(c, Len(c.out.commits) + 1) = {}

\* a call that committed two pairs and passed over a candidate scoring
\* higher than the second
C21_Witness ==
    \E c \in MatcherCalls :
        /\ Len(c.out.commits) = 2
        /\ \E p \in Candidates(c.set1, c.set2) :
              /\ p \notin {c.out.commits[1], c.out.commits[2]}
              /\ RLt(eq_cpd_pred[c.out.commits[2]], eq_cpd_pred[p])

\* prod_i (a * s_i + b * (1 - s_i)) over the commits from the i-th on
RECURSIVE ProductOfCommits(_, _, _, _)
ProductOfCommits(commits, i, a, b) ==
    IF i > Len(commits) THEN ROne
    ELSE RMul(RAdd(RMul(a, eq_cpd_pred[commits[i]]),
                   RMul(b, RSub(ROne, eq_cpd_pred[commits[i]]))),
              ProductOfCommits(commits, i + 1, a, b))

\* u = |S1| + |S2| - 2k
LeftUnmatched(c) ==
    Cardinality(c.set1) + Cardinality(c.set2) - 2 * Len(c.out.commits)

\* C22: a call of the greedy set matcher on S1 and S2 that commits k pairs
\* with scores s_1..s_k returns p_match = prod_i(0.9*s_i + 0.1*(1 - s_i)) *
\* 0.1^u and p_no_match = prod_i(0.1*s_i + 0.9*(1 - s_i)) * 0.9^u with
\* u = |S1| + |S2| - 2k; two empty sets give (1, 1).
C22_MatcherReturnsProductOfFactors ==
    \A c \in MatcherCalls :
        /\ REq(c.out.p_match,
               RMul(ProductOfCommits(c.out.commits, 1, Q(9, 10), Q(1, 10)),
                    RPow(Q(1, 10), LeftUnmatched(c))))
        /\ REq(c.out.p_no_match,
               RMul(ProductOfCommits(c.out.commits, 1, Q(1, 10), Q(9, 10)),
                    RPow(Q(9, 10), LeftUnmatched(c))))
        /\ (c.set1 = {} /\ c.set2 = {}) =>
               REq(c.out.p_match, ROne) /\ REq(c.out.p_no_match, ROne)

\* a call that committed a pair and left a compound unmatched, beside a call
\* on two empty sets
C22_Witness ==
    /\ \E c \in MatcherCalls : Len(c.out.commits) >= 1 /\ LeftUnmatched(c) >= 1
    /\ \E c \in MatcherCalls : c.set1 = {} /\ c.set2 = {}

(***************************************************************************)
(* The selection between the two hypotheses.                               *)
(***************************************************************************)
PairOf(h) == [p_match |-> h.p_match, p_no_match |-> h.p_no_match]

\* p_match / p_no_match of x is higher than that of y, both divisors positive
HigherRatio(x, y) ==
    RLt(RMul(y.p_match, x.p_no_match), RMul(x.p_match, y.p_no_match))

\* C23: the equation matcher returns the pair of the hypothesis with the
\* higher ratio p_match / p_no_match, the forward one when the ratios are
\* equal; the result is the pair of one hypothesis, never a mix, and no
\* p_no_match it divides by is zero.
C23_HigherRatioHypothesisReturned ==
    (eq_pc = "done" /\ BothDefined) =>
        /\ RLt(RZero, p_forward.p_no_match)
        /\ RLt(RZero, p_reverse.p_no_match)
        /\ eq_result \in {PairOf(p_forward), PairOf(p_reverse)}
        /\ HigherRatio(p_reverse, p_forward) => eq_result = PairOf(p_reverse)
        /\ ~HigherRatio(p_reverse, p_forward) => eq_result = PairOf(p_forward)

\* the reverse hypothesis has the higher ratio and is returned
C23_Witness ==
    /\ eq_pc = "done"
    /\ BothDefined
    /\ HigherRatio(p_reverse, p_forward)
    /\ eq_result = PairOf(p_reverse)
    /\ PairOf(p_reverse) # PairOf(p_forward)

\* the two hypotheses have equal ratios and different pairs
C23_WitnessTie ==
    /\ eq_pc = "done"
    /\ BothDefined
    /\ ~HigherRatio(p_reverse, p_forward)
    /\ ~HigherRatio(p_forward, p_reverse)
    /\ PairOf(p_reverse) # PairOf(p_forward)

(***************************************************************************)
(* The no-match likelihood of the constant-based channels.                 *)
(***************************************************************************)
\* the channels whose p_match is a constant per outcome
ConstantChannels == {"id", "name", "charge", "formula", "kegg"}

\* the frequency, over the cross product, of the outcome observed in row k:
\* the outcomes of a channel have different p_match constants
OutcomeFrequency(rows, k) ==
    Q(Cardinality({j \in DOMAIN rows : rows[j].p1 = rows[k].p1}), Len(rows))

\* (M - c * prior) / (1 - prior) for row k
RawNoMatch(rows, k) ==
    RDiv(RSub(OutcomeFrequency(rows, k), RMul(rows[k].p1, prior)), RSub(ROne, prior))

Floored(x) == IF RLt(x, RZero) THEN RZero ELSE x

\* C24: for every constant-based channel and each of its two outcomes the
\* p_no_match of a pair is max(0, (M - c * prior) / (1 - prior)), c the
\* p_match constant of the pair's outcome and M the frequency of that
\* outcome over the cross product; it is never negative.
C24_NoMatchIsFlooredFormula ==
    \A i \in DOMAIN tables :
        tables[i].channel \in ConstantChannels =>
            \A k \in DOMAIN tables[i].rows :
                tables[i].rows[k].p1 # ROne =>
                    /\ REq(tables[i].rows[k].p2, Floored(RawNoMatch(tables[i].rows, k)))
                    /\ RLe(RZero, tables[i].rows[k].p2)

\* a run that returned although M - c * prior was negative for a pair: its
\* p_no_match is 0
C24_Witness ==
    /\ map_pc = "returned"
    /\ \E i \in DOMAIN tables :
          /\ tables[i].channel \in ConstantChannels
          /\ \E k \in DOMAIN tables[i].rows :
                /\ tables[i].rows[k].p1 # ROne
                /\ RLt(RawNoMatch(tables[i].rows, k), RZero)
                /\ RIsZero(tables[i].rows[k].p2)

(***************************************************************************)
(* The prior of a run.                                                     *)
(***************************************************************************)
Smaller(n, m) == IF n <= m THEN n ELSE m

\* the run is past the head of the function
PriorComputed == map_pc \in {"dispatch", "running", "finish", "returned", "queried"} \/ pass >= 1

\* a likelihood pass of a channel whose function takes the prior is running
PriorPassRunning ==
    /\ map_pc = "running"
    /\ ~Passes(kind)[pass].marg
    /\ Passes(kind)[pass].channel \in {"id", "name", "charge", "formula"}
         \/ (Passes(kind)[pass].channel = "kegg" /\ optional)

PriorInRange ==
    PriorComputed =>
        /\ Len(model1) >= 1 /\ Len(model2) >= 1
        /\ REq(prior, Q(19 * Smaller(Len(model1), Len(model2)),
                        20 * Len(model1) * Len(model2)))
        /\ RLt(RZero, prior)
        /\ RLe(prior, Q(95, 100))
        /\ RLt(RZero, RSub(ROne, prior))

\* C25: for n >= 1 and m >= 1 the prior is 0.95 * min(n, m) / (n * m), it is
\* computed once per run and every channel that takes it is handed that
\* value; 0 < prior <= 0.95, so 1 - prior is positive.
C25_PriorComputedOnceInRange ==
    /\ [](PriorInRange)
    /\ [](PriorPassRunning => params.prior = prior)
    /\ [][PriorComputed => prior' = prior]_vars

\* a likelihood pass running on collections of different sizes
C25_Witness ==
    /\ PriorPassRunning
    /\ pass > 2
    /\ Len(model1) # Len(model2)
    /\ RLt(prior, Q(95, 100))

(***************************************************************************)
(* A pair evaluated by a worker, beside the run of the coordinating        *)
(* process: either one evaluation of the equation channel, step by step,   *)
(* or one call of map_model_compounds or map_model_reactions.              *)
(***************************************************************************)
PairInit == EqInit \/ MapInit

PairNext == EqNext \/ MapNext

PairSpec == PairInit /\ [][PairNext]_vars

\* the entities, the equations and the compound posterior tables
SharedData == <<r1_equation, r2_equation, eq_cpd_pred, model1, model2, cpd_pred>>

\* the equation channel evaluated on the shared data as they are now
EvaluatedNow ==
    reaction_equation_compound_mapping_likelihood(
        r1_equation, r2_equation, eq_cpd_pred, eq_ord1, eq_ord2)

\* every result a worker has written is the result of its pair alone
ResultsOfPairAlone ==
    map_pc = "running" =>
        \A k \in DOMAIN value :
            value[k] # <<>> =>
                value[k][1] = WorkItem(kind, Passes(kind)[pass], optional,
                                       Tasks(model1, model2)[k], params)

\* C26: an evaluation leaves the entities, the equations and the compound
\* posterior table as they were, so a pair evaluated again, or after other
\* pairs, gives the same result; and a table of a pass is assembled only
\* when every worker of the pass has returned.
C26_EvaluationLeavesSharedDataUnchanged ==
    /\ [][SharedData' = SharedData]_vars
    /\ [](eq_pc = "done" => SameP(eq_result, EvaluatedNow))
    /\ [](ResultsOfPairAlone)
    /\ [][tables' # tables => (pending = <<>> /\ running = {} /\ ~failed)]_vars

\* a finished evaluation whose forward hypothesis removed compounds from
\* the side sets
C26_Witness ==
    /\ eq_pc = "done"
    /\ BothDefined
    /\ cpd_sets # OriginalSets
    /\ Len(p_forward.left.commits) + Len(p_forward.right.commits) >= 2

(***************************************************************************)
(* The order of the passes.                                                *)
(***************************************************************************)
\* the pair of a task is equal in the attribute of the channel
EqualOutcome(channel, task) ==
    CASE channel = "id" -> id_equals(task[1].id, task[2].id)
      [] channel = "name" -> name_equals(task[1].name, task[2].name)
      [] channel = "charge" ->
            /\ task[1].charge # <<>> /\ task[2].charge # <<>>
            /\ task[1].charge = task[2].charge
      [] channel = "formula" ->
            formula_equals(task[1].formula, task[2].formula,
                           task[1].charge, task[2].charge)
      [] OTHER ->
            /\ task[1].kegg # <<>> /\ task[2].kegg # <<>>
            /\ task[1].kegg = task[2].kegg

\* the share of equal pairs in the full cross product
EqualFrequency(channel) ==
    Q(Cardinality({t \in (DOMAIN model1) \X (DOMAIN model2) :
                     EqualOutcome(channel, <<model1[t[1]], model2[t[2]]>>)}),
      Len(model1) * Len(model2))

\* a likelihood pass of a channel that uses a marginal has been dispatched
MarginalPassRunning ==
    /\ map_pc = "running"
    /\ ~Passes(kind)[pass].marg
    /\ Passes(kind)[pass].channel \in {"id", "name", "charge", "formula"}
         \/ (Passes(kind)[pass].channel = "kegg" /\ optional)

\* C27: when the likelihood pass of a channel that uses a marginal is
\* dispatched, its marginal is the complete one over the full cross product;
\* passes never overlap: the coordinator goes on to the next pass, or to the
\* end of the function, only when every batch of the pass has returned.
C27_MarginalCompleteBeforeLikelihoodPass ==
    /\ [](MarginalPassRunning => REq(params.a, EqualFrequency(Passes(kind)[pass].channel)))
    /\ [][(pass' # pass \/ map_pc' \in {"dispatch", "finish"}) =>
              (pending = <<>> /\ running = {})]_vars
    /\ [](map_pc \in {"dispatch", "finish", "returned"} =>
              (pending = <<>> /\ running = {}))

\* a likelihood pass in several batches, one returned and one still running,
\* with a marginal that is neither 0 nor 1
C27_Witness ==
    /\ MarginalPassRunning
    /\ RLt(RZero, params.a) /\ RLt(params.a, ROne)
    /\ running # {}
    /\ \E k \in DOMAIN value : value[k] # <<>>

(***************************************************************************)
(* The batch size.                                                         *)
(***************************************************************************)
\* C28: for every non-empty product space and every nproc >= 1, the batch
\* size n * m \div nproc is at least 1, every pair is dispatched and
\* evaluated once in each pass, and no pass ends on an unevaluated pair.
C28_BatchSizeAtLeastOne ==
    (PriorComputed /\ Len(model1) * Len(model2) >= 1) =>
        /\ chunksize >= 1
        /\ error # "TypeError"
        /\ (map_pc = "running" /\ pending = <<>> /\ running = {} /\ ~failed) =>
               ~HasNone(value)

(***************************************************************************)
(* The disabled optional channel.                                          *)
(***************************************************************************)
\* a returned run with its optional channel (kegg or genes) disabled
DisabledRun == map_pc = "returned" /\ ~optional

\* the joint posterior of the channels before the last one
JointWithoutLast ==
    bayes_posterior(prior, likelihood_products(SubSeq(RowsOf(tables), 1, Len(tables) - 1)))

\* C29: with the optional channel disabled its table holds (1, 1) for every
\* pair, the joint posterior of every pair is the joint posterior of the
\* remaining channels alone, and the channel's own posterior is the prior
\* for every pair.
C29_DisabledChannelIsNoOp ==
    DisabledRun =>
        /\ tables[Len(tables)].channel \in {"kegg", "genes"}
        /\ \A k \in DOMAIN tables[Len(tables)].rows :
              /\ tables[Len(tables)].rows[k].p1 = ROne
              /\ tables[Len(tables)].rows[k].p2 = ROne
        /\ \A k \in DOMAIN result[1] :
              /\ result[1][k].e1 = JointWithoutLast[k].e1
              /\ result[1][k].e2 = JointWithoutLast[k].e2
              /\ REq(result[1][k].p, JointWithoutLast[k].p)
        /\ \A k \in DOMAIN result[Len(result)] : REq(result[Len(result)][k].p, prior)

\* a returned compound run with kegg disabled in which a pair has the same
\* kegg id on both sides and a joint posterior other than the prior
C29_Witness ==
    /\ DisabledRun
    /\ kind = "compound"
    /\ \E i \in DOMAIN model1 : \E j \in DOMAIN model2 :
          /\ model1[i].kegg # <<>>
          /\ model1[i].kegg = model2[j].kegg
    /\ \E k \in DOMAIN result[1] : ~REq(result[1][k].p, prior)

(***************************************************************************)
(* The direction in which one model wrote a reaction.                      *)
(***************************************************************************)
\* p_match / p_no_match of x and of y are equal, the divisors positive
SameRatio(x, y) == REq(RMul(x.p_match, y.p_no_match), RMul(y.p_match, x.p_no_match))

\* C30: exchanging the left and right sets of one of the two equations only
\* leaves the ratio p_match / p_no_match returned for the pair unchanged.
C30_OneSidedReversalKeepsRatio ==
    (eq_pc = "done" /\ BothDefined) =>
        /\ SameRatio(eq_result,
                     reaction_equation_compound_mapping_likelihood(
                         r1_equation, Reversed(r2_equation),
                         eq_cpd_pred, eq_ord1, eq_ord2))
        /\ SameRatio(eq_result,
                     reaction_equation_compound_mapping_likelihood(
                         Reversed(r1_equation), r2_equation,
                         eq_cpd_pred, eq_ord1, eq_ord2))

====
